---------------------------- MODULE Spec2Model ----------------------------
(***************************************************************************)
(* A model of the live-configuration substrate of claude-code-router:      *)
(* ConfigVersionManager (version ring), ConfigValidator, RouterGroup-       *)
(* Manager (active group, merged Router view), ConfigWatcher (debounced     *)
(* file events) and DynamicRouter (the coordinator).                        *)
(*                                                                         *)
(* Objects of the program are records; a method is an operator from the    *)
(* object's record (and its arguments) to the record after the call and    *)
(* the value returned.  JavaScript reference semantics matter here: a       *)
(* config object can be held by a stored version, by its backup copy, by    *)
(* DynamicRouter.currentConfig and by RouterGroupManager.config at once.    *)
(* Every holder therefore carries the identity (obj) of the config object   *)
(* it points to, and a field write is applied to all holders of that        *)
(* identity.                                                                *)
(***************************************************************************)
EXTENDS Integers, Sequences, FiniteSets, TLC

\* ------------------------------------------------------------------ bounds
\* A run of calls made one after the other makes at most MaxOps calls (the
\* version counter, the clock and the depth of backup-backup-... labels are
\* bounded by the number of calls).
MaxOps == 4

\* ConfigVersionManager's constructor argument (10 by default).
maxVersions == 2

\* When calls interleave, a run makes at most MaxSteps steps: a step is what a
\* method does between two awaits.
MaxSteps == 6
\* A run of the custom-router specification makes at most MaxRouterOps calls.
MaxRouterOps == 6
\* A run of the ProviderManager makes at most MaxProviderOps calls and ends
\* of probes.
MaxProviderOps == 3

\* ------------------------------------------------------------ config values
None == "none"

GroupIds == {"router1", "router2"}
DefaultRoute == "openrouter,claude-3.5-sonnet"

\* route.split(',')[0] for the route strings of the model.
RouteProvider(route) ==
  CASE route \in {"p1,m1", "p1,think", "p1,bg", "p1,long", "p1,web"} -> "p1"
    [] route \in {"p2,m2", "p2,long"} -> "p2"
    [] route = "pX,mz" -> "pX"
    [] route = DefaultRoute -> "openrouter"
    [] OTHER -> None

\* The longContextThreshold of a block that sets none.
NoThreshold == 0

\* A RouterGroup record: name and default are required by the interface,
\* description and think (one of the optional routes) may be absent (None).
NoGroup == [defined |-> FALSE, default |-> None, think |-> None, name |-> None,
            description |-> None, background |-> None, longContext |-> None,
            webSearch |-> None, longContextThreshold |-> NoThreshold]
Group(route) == [NoGroup EXCEPT !.defined = TRUE, !.default = route, !.name = "group"]

\* A configuration document.  keyOrder stands for the order in which the
\* object's keys were written (0 is the sorted order); Providers holds the
\* names of its provider records (malformedProvider: one of them lacks its
\* api_key; arrayOrder stands for the order of the elements of Providers, 0
\* being the order the other documents have); default, think, background,
\* longContext, webSearch, longContextThreshold and activeGroup are the fields
\* of Router; RouterGroups maps a group id to its record.
MkConfig(ko, hasP, provs, hasR, def, ag, groups, crp) ==
  [isNull |-> FALSE, keyOrder |-> ko, hasProviders |-> hasP, Providers |-> provs,
   malformedProvider |-> FALSE,
   arrayOrder |-> 0,
   hasRouter |-> hasR, default |-> def, think |-> None, background |-> None,
   longContext |-> None, webSearch |-> None, longContextThreshold |-> NoThreshold,
   activeGroup |-> ag,
   RouterGroups |-> groups, CUSTOM_ROUTER_PATH |-> crp]

NoGroups == [g \in GroupIds |-> NoGroup]
TwoGroups == [g \in GroupIds |-> IF g = "router1" THEN Group("p1,m1") ELSE Group("p2,m2")]

NullConfig == [MkConfig(0, FALSE, {}, FALSE, None, None, NoGroups, FALSE) EXCEPT !.isNull = TRUE]

\* The candidate documents an operator can write or submit.
CfgA == MkConfig(0, TRUE, {"p1"}, TRUE, "p1,m1", None, NoGroups, FALSE)
CfgAk == MkConfig(1, TRUE, {"p1"}, TRUE, "p1,m1", None, NoGroups, FALSE)
\* CfgB with the elements of Providers in the other order.
CfgBr == [MkConfig(0, TRUE, {"p1", "p2"}, TRUE, "p2,m2", None, TwoGroups, TRUE)
          EXCEPT !.arrayOrder = 1]
CfgB == MkConfig(0, TRUE, {"p1", "p2"}, TRUE, "p2,m2", None, TwoGroups, TRUE)
CfgNoDefault == MkConfig(0, TRUE, {"p1"}, TRUE, None, None, NoGroups, FALSE)
CfgDangling == MkConfig(0, TRUE, {"p1"}, TRUE, "pX,mz", None, NoGroups, FALSE)
CfgBadProvider == [CfgA EXCEPT !.malformedProvider = TRUE]

Candidates == {CfgA, CfgB, CfgDangling, CfgBadProvider}
FileContents == {CfgB, CfgNoDefault}

\* ------------------------------------------------------------ identifiers
\* `v${versionCounter}-${timestamp}` and `backup-${Date.now()}`.
VId(n, t) == [k |-> "v", n |-> n, t |-> t]
BackupId(t) == [k |-> "backup", n |-> 0, t |-> t]
NoId == [k |-> "none", n |-> 0, t |-> 0]
\* The identity of a config object no stored version holds (a parsed file, a
\* request body, the caller's initial config).
ExtObj == [k |-> "ext", n |-> 0, t |-> 0]

\* `v${n}`, with b "backup-" prefixes.
Label(b, n) == [b |-> b, n |-> n]
NoLabel == Label(0, 0)


\* ------------------------------------------------- ConfigVersionManager
\* calculateChecksum: SHA-256 of JSON.stringify(sortObjectKeys(config)).  The
\* digest is taken to be injective, so the checksum is the document with its
\* keys put in sorted order; arrays keep the order of their elements.
\* A checksum that reads the document as it is written.
checksumAsWritten(config) == config

sortObjectKeys(config) == [config EXCEPT !.keyOrder = 0]
calculateChecksum(config) == sortObjectKeys(config)

\* The Map `versions` is a sequence in insertion order.
Has(versions, id) == \E i \in 1..Len(versions) : versions[i].id = id
Get(versions, id) == versions[CHOOSE i \in 1..Len(versions) : versions[i].id = id]
\* Map.set: an existing key keeps its place, a new key goes last.
MapSet(versions, id, v) ==
  IF Has(versions, id)
  THEN [i \in 1..Len(versions) |-> IF versions[i].id = id THEN v ELSE versions[i]]
  ELSE Append(versions, v)
MapDelete(versions, ids) == SelectSeq(versions, LAMBDA v : v.id \notin ids)

NoVersion ==
  [id |-> NoId, version |-> NoLabel, timestamp |-> 0, checksum |-> NullConfig,
   config |-> NullConfig, obj |-> NoId, isActive |-> FALSE, source |-> None]

NewVM == [versions |-> <<>>, activeVersionId |-> NoId, versionCounter |-> 1]

getCurrentVersion(vm) ==
  IF vm.activeVersionId # NoId /\ Has(vm.versions, vm.activeVersionId)
  THEN Get(vm.versions, vm.activeVersionId)
  ELSE NoVersion

getVersion(vm, id) == IF Has(vm.versions, id) THEN Get(vm.versions, id) ELSE NoVersion

\* Array.prototype.sort((a, b) => b.timestamp - a.timestamp) is stable: versions
\* of equal timestamp keep their insertion order.
InsertDesc(sorted, x) ==
  LET k == Cardinality({i \in 1..Len(sorted) : sorted[i].timestamp >= x.timestamp})
  IN SubSeq(sorted, 1, k) \o <<x>> \o SubSeq(sorted, k + 1, Len(sorted))

RECURSIVE SortDesc(_)
SortDesc(s) ==
  IF Len(s) = 0 THEN <<>>
  ELSE InsertDesc(SortDesc(SubSeq(s, 1, Len(s) - 1)), s[Len(s)])

getAllVersions(vm) == SortDesc(vm.versions)

cleanupOldVersions(versions) ==
  IF Len(versions) <= maxVersions THEN versions
  ELSE LET sorted == SortDesc(versions)
           versionsToRemove == SubSeq(sorted, maxVersions + 1, Len(sorted))
           gone == {versionsToRemove[i].id : i \in {j \in 1..Len(versionsToRemove) :
                                                     ~versionsToRemove[j].isActive}}
       IN MapDelete(versions, gone)

\* addVersion(config, source) called when Date.now() = t; the value returned
\* is the version record.
addVersion(vm, config, source, t) ==
  LET checksum == calculateChecksum(config)
      activeVersion == getCurrentVersion(vm)
  IN IF activeVersion.id # NoId /\ activeVersion.checksum = checksum
     THEN [vm |-> vm, version |-> activeVersion]
     ELSE LET id == VId(vm.versionCounter, t)
              newVersion == [id |-> id, version |-> Label(0, vm.versionCounter),
                             timestamp |-> t, checksum |-> checksum,
                             config |-> config, obj |-> id, isActive |-> TRUE,
                             source |-> source]
              deactivated == [i \in 1..Len(vm.versions) |->
                                IF vm.versions[i].id = vm.activeVersionId
                                THEN [vm.versions[i] EXCEPT !.isActive = FALSE]
                                ELSE vm.versions[i]]
          IN [vm |-> [versions |-> cleanupOldVersions(MapSet(deactivated, id, newVersion)),
                      activeVersionId |-> id,
                      versionCounter |-> vm.versionCounter + 1],
              version |-> newVersion]

\* The file on disk: a parsed document, or a file readConfigFile throws on.
File(config) == [readable |-> TRUE, config |-> config]
Unreadable == [readable |-> FALSE, config |-> NullConfig]

\* ./index writeConfigFile: the file holds the document, or the write throws
\* and leaves the file as it was.
writeConfigFile(file, config, writeOk) == IF writeOk THEN File(config) ELSE file

\* rollbackToVersion(versionId) called when Date.now() = t.  The backup is a
\* shallow copy of the active version ({...currentVersion}): it shares the
\* config object.  targetVersion is the object fetched before the backup is
\* stored, so when the backup's id equals versionId the Map entry is replaced
\* by the backup and the activation lands on an object the Map no longer holds.
vmRollbackToVersion(vm, versionId, t, writeOk) ==
  IF ~Has(vm.versions, versionId) THEN [vm |-> vm, ok |-> FALSE, wrote |-> FALSE, config |-> NullConfig]
  ELSE LET targetVersion == Get(vm.versions, versionId)
           currentVersion == getCurrentVersion(vm)
           backupVersion == [currentVersion EXCEPT
                               !.id = BackupId(t),
                               !.version = Label(currentVersion.version.b + 1, currentVersion.version.n),
                               !.source = "manual",
                               !.isActive = FALSE]
           withBackup == IF currentVersion.id # NoId
                         THEN MapSet(vm.versions, backupVersion.id, backupVersion)
                         ELSE vm.versions
           targetInMap == ~(currentVersion.id # NoId /\ backupVersion.id = versionId)
           activated == [i \in 1..Len(withBackup) |->
                           [withBackup[i] EXCEPT
                              !.isActive = (targetInMap /\ withBackup[i].id = versionId)]]
       IN [vm |-> [vm EXCEPT !.versions = activated, !.activeVersionId = versionId],
           ok |-> writeOk, wrote |-> writeOk, config |-> targetVersion.config]

\* Object.keys(config || {}): the top-level keys of a document.
TopLevelKeys(config) ==
  IF config.isNull THEN {}
  ELSE (IF config.hasProviders THEN {"Providers"} ELSE {})
       \cup (IF config.hasRouter THEN {"Router"} ELSE {})
       \cup (IF \E g \in DOMAIN config.RouterGroups : config.RouterGroups[g].defined
             THEN {"RouterGroups"} ELSE {})
       \cup (IF config.CUSTOM_ROUTER_PATH THEN {"CUSTOM_ROUTER_PATH"} ELSE {})

\* JSON.stringify(config[key]): the text of an object follows the order of
\* its keys and of its array elements.
Stringify(config, key) ==
  CASE key = "Providers" ->
         <<config.keyOrder, config.arrayOrder, config.Providers, config.malformedProvider>>
    [] key = "Router" ->
         <<config.keyOrder, config.default, config.think, config.background,
           config.longContext, config.webSearch, config.longContextThreshold,
           config.activeGroup>>
    [] key = "RouterGroups" -> <<config.keyOrder, config.RouterGroups>>
    [] OTHER -> <<config.CUSTOM_ROUTER_PATH>>

\* A diff that lists only what differs: what C36 must exclude.
diffOfChangedKeys(oldConfig, newConfig) ==
  LET oldKeys == TopLevelKeys(oldConfig)
      newKeys == TopLevelKeys(newConfig)
  IN [added |-> [k \in newKeys \ oldKeys |-> Stringify(newConfig, k)],
      removed |-> [k \in oldKeys \ newKeys |-> Stringify(oldConfig, k)],
      modified |-> [k \in {c \in oldKeys \cap newKeys :
                             Stringify(oldConfig, c) # Stringify(newConfig, c)} |->
                      [old |-> Stringify(oldConfig, k), new |-> Stringify(newConfig, k)]],
      unchanged |-> [k \in {} |-> <<>>]]

\* calculateConfigDiff(oldConfig, newConfig); a value stands for the whole
\* value of the key.
calculateConfigDiff(oldConfig, newConfig) ==
  LET oldKeys == TopLevelKeys(oldConfig)
      newKeys == TopLevelKeys(newConfig)
  IN [added |-> [k \in newKeys \ oldKeys |-> Stringify(newConfig, k)],
      removed |-> [k \in oldKeys \ newKeys |-> Stringify(oldConfig, k)],
      modified |-> [k \in {c \in oldKeys \cap newKeys :
                             Stringify(oldConfig, c) # Stringify(newConfig, c)} |->
                      [old |-> Stringify(oldConfig, k), new |-> Stringify(newConfig, k)]],
      unchanged |-> [k \in {c \in oldKeys \cap newKeys :
                              Stringify(oldConfig, c) = Stringify(newConfig, c)} |->
                       Stringify(newConfig, k)]]

\* getVersionDiff(fromVersionId, toVersionId): null when a version is missing.
NoDiff == [missing |-> TRUE]
getVersionDiff(vm, fromVersionId, toVersionId) ==
  IF ~Has(vm.versions, fromVersionId) \/ ~Has(vm.versions, toVersionId) THEN NoDiff
  ELSE calculateConfigDiff(Get(vm.versions, fromVersionId).config,
                           Get(vm.versions, toVersionId).config)

deleteVersion(vm, versionId) ==
  IF ~Has(vm.versions, versionId) \/ Get(vm.versions, versionId).isActive
  THEN vm
  ELSE [vm EXCEPT !.versions = MapDelete(vm.versions, {versionId})]

\* validateVersionIntegrity's two checks.
ActiveVersionCount(vm) == Cardinality({i \in 1..Len(vm.versions) : vm.versions[i].isActive})
ChecksumsMatch(vm) ==
  \A i \in 1..Len(vm.versions) :
    calculateChecksum(vm.versions[i].config) = vm.versions[i].checksum
validateVersionIntegrity(vm) == ActiveVersionCount(vm) = 1 /\ ChecksumsMatch(vm)


\* ------------------------------------------------------ ConfigValidator
Err(type, field, severity) == [type |-> type, field |-> field, severity |-> severity]

validateSchema(config) ==
  IF config.isNull THEN {Err("schema", "root", "critical")}
  ELSE (IF config.hasProviders THEN {} ELSE {Err("schema", "Providers", "critical")})
       \cup (IF config.hasRouter THEN {} ELSE {Err("schema", "Router", "critical")})
       \cup (IF config.hasProviders /\ config.malformedProvider
             THEN {Err("schema", "Providers[i].api_key", "critical")} ELSE {})

\* routeFields of validateRouter and validateSingleRouterGroup.
RouteFields == {"default", "background", "think", "longContext", "webSearch"}

\* `Router.${field}`
RouterField ==
  [default |-> "Router.default", background |-> "Router.background",
   think |-> "Router.think", longContext |-> "Router.longContext",
   webSearch |-> "Router.webSearch"]

validateRouteReference(route, field, providers) ==
  IF RouteProvider(route) # None /\ RouteProvider(route) \notin providers
  THEN {Err("compatibility", field, "high")}
  ELSE {}

\* validateRouter(config.Router || {}, config.Providers || [])
validateRouter(config) ==
  LET hasDefault == config.hasRouter /\ config.default # None
      providers == IF config.hasProviders THEN config.Providers ELSE {}
  IN (IF hasDefault THEN {} ELSE {Err("schema", "Router.default", "critical")})
     \cup (IF hasDefault
           THEN validateRouteReference(config.default, "Router.default", providers)
           ELSE {})
     \cup UNION {IF config.hasRouter /\ config[field] # None
                 THEN validateRouteReference(config[field], RouterField[field], providers)
                 ELSE {} : field \in RouteFields \ {"default"}}
     \cup (IF config.hasRouter /\ config.longContextThreshold < 0
           THEN {Err("schema", "Router.longContextThreshold", "medium")}
           ELSE {})

\* A verdict that takes any error for a reason to reject: what C35 must
\* exclude.
validOnlyWithoutErrors(errors) == errors = {}

\* calculateFinalScore: a critical error, and nothing else, makes isValid false.
calculateFinalScore(errors) == ~(\E e \in errors : e.severity = "critical")

\* validateConfig.  For a null config, config.Providers throws after
\* validateSchema and the catch adds a critical error and sets isValid false.
validateConfig(config) ==
  LET errors == IF config.isNull
                THEN validateSchema(config) \cup {Err("schema", "config", "critical")}
                ELSE validateSchema(config) \cup validateRouter(config)
  IN [isValid |-> calculateFinalScore(errors), errors |-> errors]

\* What testProviderConnectivity finds of a provider: an answer below 500 in
\* time, one that took more than 5000 ms, or none.
Reach == {"ok", "slow", "unreachable"}
Warn(type, field) == [type |-> type, field |-> field]

\* validateProviders(config.Providers || []): a warning for every provider
\* that is not reachable or answers slowly.
validateProviders(config, reach) ==
  {Warn("performance", n) : n \in {k \in (IF config.isNull \/ ~config.hasProviders THEN {}
                                           ELSE config.Providers) : reach[k] # "ok"}}

\* The ValidationResult validateConfig returns, warnings included.
validationResult(config, reach) ==
  [isValid |-> validateConfig(config).isValid,
   errors |-> validateConfig(config).errors,
   warnings |-> validateProviders(config, reach)]

\* -------------------------------------------------- RouterGroupManager
NewRGM == [config |-> NullConfig, obj |-> ExtObj, currentActiveGroup |-> "router1"]

\* A property every object inherits from Object.prototype: groups[id] finds it
\* in whatever object getRouterGroups() returns, `{}` included.  Its value is
\* a function, which has no enumerable property of its own.
InheritedIds == {"constructor"}
InheritedProperty == [NoGroup EXCEPT !.defined = TRUE]

\* Object.keys(getRouterGroups()), in the order the document lists them.
GroupOrder == <<"router1", "router2">>
OwnKeys(config) ==
  IF config.isNull THEN {} ELSE {g \in GroupIds : config.RouterGroups[g].defined}
FirstKey(keys) ==
  GroupOrder[CHOOSE i \in 1..Len(GroupOrder) :
               /\ GroupOrder[i] \in keys
               /\ \A j \in 1..(i - 1) : GroupOrder[j] \notin keys]

\* getRouterGroups()[groupId], a falsy value when nothing is found.
getRouterGroup(config, groupId) ==
  IF groupId \in OwnKeys(config) THEN config.RouterGroups[groupId]
  ELSE IF groupId \in InheritedIds THEN InheritedProperty
  ELSE NoGroup

getCurrentRouterConfig(rgm) == getRouterGroup(rgm.config, rgm.currentActiveGroup)

\* A JavaScript object: a function from the keys it has to their values.
EmptyObject == [k \in {} |-> None]
Object(rec, keys) == [k \in {key \in keys : rec[key] # None} |-> rec[k]]
Spread(a, b) == [k \in DOMAIN a \cup DOMAIN b |-> IF k \in DOMAIN b THEN b[k] ELSE a[k]]
Delete(obj, key) == [k \in DOMAIN obj \ {key} |-> obj[k]]

\* The value of a route field of the merged view, None when the view lacks it.
ViewField(view, field) == IF field \in DOMAIN view THEN view[field] ELSE None

\* The longContextThreshold property of a block, when the block has one.
Threshold(rec) ==
  IF rec.longContextThreshold = NoThreshold THEN EmptyObject
  ELSE [k \in {"longContextThreshold"} |-> rec.longContextThreshold]

\* this.config?.Router || {}
RouterBlock(config) ==
  IF ~config.isNull /\ config.hasRouter
  THEN Spread(Object(config, RouteFields \cup {"activeGroup"}), Threshold(config))
  ELSE EmptyObject

\* The enumerable properties of a group record.
GroupBlock(group) ==
  Spread(Object(group, RouteFields \cup {"name", "description"}), Threshold(group))

\* A merged view that keeps the group's name: what C14 must exclude.
mergedKeepingName(rgm) ==
  Delete(Spread(Spread(RouterBlock(rgm.config), GroupBlock(getCurrentRouterConfig(rgm))),
                [activeGroup |-> rgm.currentActiveGroup]),
         "description")

\* The view routing consults: config.Router when no group is current, and
\* otherwise {...Router, ...currentGroup, activeGroup: currentActiveGroup}
\* without name and description.
getMergedRouterConfig(rgm) ==
  IF ~getCurrentRouterConfig(rgm).defined THEN RouterBlock(rgm.config)
  ELSE Delete(Delete(Spread(Spread(RouterBlock(rgm.config),
                                   GroupBlock(getCurrentRouterConfig(rgm))),
                            [activeGroup |-> rgm.currentActiveGroup]),
                     "name"),
              "description")

\* initialize(config) and updateConfig(config) both store the reference and
\* re-read Router.activeGroup; their validation only logs.
rgmUpdateConfig(rgm, config, obj) ==
  [config |-> config, obj |-> obj,
   currentActiveGroup |-> IF config.hasRouter /\ config.activeGroup # None
                          THEN config.activeGroup
                          ELSE rgm.currentActiveGroup]

\* initialize's "ensure Providers, Router and Router.default exist".
FillRouter(config) ==
  IF ~config.hasRouter THEN [config EXCEPT !.hasRouter = TRUE, !.default = DefaultRoute]
  ELSE IF config.default = None THEN [config EXCEPT !.default = DefaultRoute]
  ELSE config

FillDefaults(config) ==
  FillRouter(IF config.hasProviders THEN config
             ELSE [config EXCEPT !.hasProviders = TRUE, !.Providers = {}])

SetActiveGroup(groupId, config) == [config EXCEPT !.activeGroup = groupId]

\* delete this.config.RouterGroups[groupId]
DeleteGroup(groupId, config) ==
  IF groupId \in GroupIds THEN [config EXCEPT !.RouterGroups[groupId] = NoGroup]
  ELSE config

\* The writes the code makes into a config object it holds by reference:
\* switchToGroup's Router.activeGroup = groupId, initialize's defaults and
\* removeRouterGroup's delete.
GroupWrite(groupId) == [field |-> "Router.activeGroup", groupId |-> groupId]
DefaultsWrite == [field |-> "defaults", groupId |-> None]
DeleteWrite(groupId) == [field |-> "RouterGroups.delete", groupId |-> groupId]

ApplyWrite(write, config) ==
  IF write.field = "defaults" THEN FillDefaults(config)
  ELSE IF write.field = "RouterGroups.delete" THEN DeleteGroup(write.groupId, config)
  ELSE SetActiveGroup(write.groupId, config)

\* ------------------------------------------- the heap of config objects
\* sys is the record [vm, rgm, dr, disk].  A write to the config object of
\* identity obj reaches every holder of that object.  Two holders of an object
\* no version stores (ExtObj) hold the same one: currentConfig and
\* RouterGroupManager.config are assigned together except by a rollback, which
\* makes currentConfig a stored object.
WriteObj(sys, obj, write) ==
  LET vs == sys.vm.versions
  IN [vm |-> [sys.vm EXCEPT !.versions =
                 [i \in 1..Len(vs) |-> IF obj # ExtObj /\ vs[i].obj = obj
                                       THEN [vs[i] EXCEPT !.config = ApplyWrite(write, vs[i].config)]
                                       ELSE vs[i]]],
      rgm |-> IF sys.rgm.obj = obj /\ ~sys.rgm.config.isNull
              THEN [sys.rgm EXCEPT !.config = ApplyWrite(write, sys.rgm.config)] ELSE sys.rgm,
      dr |-> IF sys.dr.obj = obj /\ ~sys.dr.currentConfig.isNull
             THEN [sys.dr EXCEPT !.currentConfig = ApplyWrite(write, sys.dr.currentConfig)] ELSE sys.dr,
      disk |-> sys.disk]

\* RouterGroupManager.switchToGroup: the write to this.config.Router.activeGroup
\* is a write to the shared config object.
switchToGroup(sys, groupId) ==
  IF ~getRouterGroup(sys.rgm.config, groupId).defined
  THEN [sys |-> sys, ok |-> FALSE, events |-> <<>>]
  ELSE LET switched == [sys EXCEPT !.rgm.currentActiveGroup = groupId]
       IN [sys |-> IF switched.rgm.config.hasRouter
                   THEN WriteObj(switched, switched.rgm.obj, GroupWrite(groupId))
                   ELSE switched,
           ok |-> TRUE, events |-> <<"groupSwitched">>]

\* removeRouterGroup, once the group is known to be there and, when it is the
\* active one, the switch to the first remaining group is made.
removeGroup(sys, groupId) ==
  [sys |-> WriteObj(sys, sys.rgm.obj, DeleteWrite(groupId)), ok |-> TRUE]

\* RouterGroupManager.removeRouterGroup
removeRouterGroup(sys, groupId) ==
  IF ~getRouterGroup(sys.rgm.config, groupId).defined
  THEN [sys |-> sys, ok |-> FALSE]
  ELSE IF groupId # sys.rgm.currentActiveGroup THEN removeGroup(sys, groupId)
  ELSE IF OwnKeys(sys.rgm.config) \ {groupId} = {} THEN [sys |-> sys, ok |-> FALSE]
  ELSE removeGroup(switchToGroup(sys, FirstKey(OwnKeys(sys.rgm.config) \ {groupId})).sys,
                   groupId)


\* ------------------------------------------------------- DynamicRouter
NewDR ==
  [currentConfig |-> NullConfig, obj |-> ExtObj, isInitialized |-> FALSE,
   currentCustomRouter |-> FALSE, updateInProgress |-> FALSE,
   status |-> [isActive |-> FALSE, currentVersion |-> NoLabel,
               health |-> "healthy", errorCount |-> 0]]

\* DynamicRouter.rollbackToVersion(versionId) after its await: success is the
\* version manager's answer.  The routerGroupManager is not told.
completeRollback(sys, versionId, success) ==
  IF success /\ Has(sys.vm.versions, versionId)
  THEN [sys |-> [sys EXCEPT !.dr.currentConfig = getVersion(sys.vm, versionId).config,
                            !.dr.obj = getVersion(sys.vm, versionId).obj,
                            !.dr.status.currentVersion = getVersion(sys.vm, versionId).version,
                            !.dr.status.health = "healthy"],
        ok |-> TRUE]
  ELSE [sys |-> sys, ok |-> success]

\* The same with nothing running between the version manager's changes (r is
\* its answer), the write of the file and the return.
applyRollback(sys, versionId, r) ==
  completeRollback([sys EXCEPT !.vm = r.vm,
                               !.disk = writeConfigFile(@, r.config, r.wrote)],
                   versionId, r.ok)

rollbackToVersion(sys, opts, versionId, t, writeOk) ==
  IF ~opts.enableVersioning THEN [sys |-> sys, ok |-> FALSE]
  ELSE applyRollback(sys, versionId, vmRollbackToVersion(sys.vm, versionId, t, writeOk))

\* The first entry of versions that is not active, 0 when there is none.
FirstInactive(versions) ==
  IF \A i \in 1..Len(versions) : versions[i].isActive THEN 0
  ELSE CHOOSE i \in 1..Len(versions) :
         /\ ~versions[i].isActive
         /\ \A j \in 1..(i - 1) : versions[j].isActive

\* performRollback: the newest version that is not active.
rollbackToFirst(sys, opts, versions, first, t, writeOk) ==
  IF ~opts.enableVersioning \/ first = 0
  THEN [sys |-> sys, ok |-> FALSE]
  ELSE rollbackToVersion(sys, opts, versions[first].id, t, writeOk)

rollbackAmong(sys, opts, versions, t, writeOk) ==
  rollbackToFirst(sys, opts, versions, FirstInactive(versions), t, writeOk)

performRollback(sys, opts, t, writeOk) ==
  rollbackAmong(sys, opts, getAllVersions(sys.vm), t, writeOk)

\* updateConfiguration's catch block: rb is performRollback's answer.
rejectUpdate(rb, errors) ==
  [sys |-> rb.sys, success |-> FALSE, invalid |-> TRUE,
   rollbackPerformed |-> rb.ok, errors |-> errors]

\* An update that leaves the status as it finds it.
applyUpdateKeepingStatus(sys, opts, newConfig, obj, av, errors) ==
  [sys |-> [sys EXCEPT
              !.vm = av.vm,
              !.dr.status.currentVersion =
                 IF opts.enableVersioning THEN av.version.version ELSE @,
              !.dr.currentConfig = newConfig,
              !.dr.obj = obj,
              !.rgm = rgmUpdateConfig(@, newConfig, obj)],
   success |-> TRUE, invalid |-> FALSE, rollbackPerformed |-> FALSE,
   errors |-> errors]

\* updateConfiguration's steps 2 to 5: av is addVersion's answer.
applyUpdate(sys, opts, newConfig, obj, av, errors) ==
  [sys |-> [sys EXCEPT
              !.vm = av.vm,
              !.dr.status.currentVersion =
                 IF opts.enableVersioning THEN av.version.version ELSE @,
              !.dr.currentConfig = newConfig,
              !.dr.obj = obj,
              !.rgm = rgmUpdateConfig(@, newConfig, obj),
              !.dr.status.health = "healthy",
              !.dr.status.errorCount = 0],
   success |-> TRUE, invalid |-> FALSE, rollbackPerformed |-> FALSE,
   errors |-> errors]

validated(sys, opts, newConfig, obj, source, t, writeOk, validation) ==
  IF opts.enableValidation /\ ~validation.isValid
  THEN rejectUpdate(IF opts.rollbackOnFailure
                    THEN performRollback(sys, opts, t, writeOk)
                    ELSE [sys |-> sys, ok |-> FALSE],
                    validation.errors)
  ELSE applyUpdate(sys, opts, newConfig, obj,
                   IF opts.enableVersioning
                   THEN addVersion(sys.vm, newConfig, source, t)
                   ELSE [vm |-> sys.vm, version |-> NoVersion],
                   IF opts.enableValidation THEN validation.errors ELSE {})

\* updateConfiguration(newConfig, source); obj is the identity of the object
\* passed as newConfig.
updateConfiguration(sys, opts, newConfig, obj, source, t, writeOk) ==
  validated(sys, opts, newConfig, obj, source, t, writeOk, validateConfig(newConfig))

\* reloadConfiguration: syncFromFile adds the file's document as a version
\* (whatever enableVersioning says) and the stored copy is what is submitted.
reloadSynced(sys, opts, av, t, writeOk) ==
  updateConfiguration([sys EXCEPT !.vm = av.vm], opts, av.version.config,
                      av.version.obj, "manual", t, writeOk)

reloadConfiguration(sys, opts, t, writeOk) ==
  IF ~sys.disk.readable
  THEN [sys |-> sys, success |-> FALSE, invalid |-> FALSE, rollbackPerformed |-> FALSE,
        errors |-> {}]
  ELSE reloadSynced(sys, opts, addVersion(sys.vm, sys.disk.config, "file-watch", t),
                    t, writeOk)

BuiltinConfig == MkConfig(0, TRUE, {}, TRUE, DefaultRoute, None, NoGroups, FALSE)

\* initialize, after the config to start from is chosen: the object of
\* identity o holding c.  The RouterGroupManager receives the reference before
\* the defaults are written here and after them in the code: the defaults do
\* not touch activeGroup, so the order makes no difference.
startFrom(sys, c, o) ==
  WriteObj([sys EXCEPT !.dr.currentConfig = c, !.dr.obj = o,
                       !.rgm = rgmUpdateConfig(@, FillDefaults(c), o)],
           o, DefaultsWrite)

\* initialize's choice of config: the argument when it has Providers and
\* Router, else the file's (sync is syncFromFile's answer), else the argument,
\* else what currentConfig already holds, else the built-in minimum.
chooseConfig(sys, initialConfig, usable, sync) ==
  IF usable THEN startFrom(sys, initialConfig, ExtObj)
  ELSE IF sync.version.id # NoId
       THEN startFrom([sys EXCEPT !.vm = sync.vm], sync.version.config, sync.version.obj)
  ELSE IF ~initialConfig.isNull THEN startFrom(sys, initialConfig, ExtObj)
  ELSE IF ~sys.dr.currentConfig.isNull
       THEN startFrom(sys, sys.dr.currentConfig, sys.dr.obj)
  ELSE startFrom(sys, BuiltinConfig, ExtObj)

\* initialize's last steps: the custom router.
\* What require(routerPath) yields: a function, a value that is no function,
\* or an exception.
Required == {"function", "object", "throws"}

\* ConfigValidator.validateCustomRouter: it loads the file itself.
validateCustomRouter(required) == [isValid |-> required = "function"]

\* loadCustomRouter(filePath): the field is assigned before the type is
\* tested, and the catch sets it to null and throws again.
loadCustomRouter(sys, required) ==
  IF required = "function"
  THEN [sys |-> [sys EXCEPT !.dr.currentCustomRouter = TRUE], threw |-> FALSE]
  ELSE [sys |-> [sys EXCEPT !.dr.currentCustomRouter = FALSE], threw |-> TRUE]

\* handleUpdateError(error)
handleUpdateError(sys) ==
  [sys EXCEPT !.dr.status.errorCount = @ + 1,
              !.dr.status.health = IF sys.dr.status.errorCount + 1 > 3
                                   THEN "failed" ELSE "degraded"]

\* updateCustomRouter(filePath): the validator and the loader each require
\* the file, checked and required being what the two reads yield.
updateCustomRouter(sys, opts, checked, required) ==
  IF opts.enableValidation /\ ~validateCustomRouter(checked).isValid
  THEN [sys |-> sys, success |-> FALSE]
  ELSE IF loadCustomRouter(sys, required).threw
  THEN [sys |-> handleUpdateError(loadCustomRouter(sys, required).sys), success |-> FALSE]
  ELSE [sys |-> loadCustomRouter(sys, required).sys, success |-> TRUE]

startRouter(sys, opts, loadOk) ==
  IF opts.customRouterPath /\ ~loadOk
  THEN [sys |-> [sys EXCEPT !.dr.currentCustomRouter = FALSE,
                            !.dr.status.health = "failed"],
        ok |-> FALSE]
  ELSE [sys |-> [sys EXCEPT !.dr.currentCustomRouter = opts.customRouterPath,
                            !.dr.isInitialized = TRUE,
                            !.dr.status.isActive = TRUE],
        ok |-> TRUE]

firstVersion(sys, opts, av, loadOk) ==
  startRouter([sys EXCEPT !.vm = av.vm,
                          !.dr.status.currentVersion =
                             IF opts.enableVersioning THEN av.version.version ELSE @],
              opts, loadOk)

\* initialize's validation and first version of the chosen config.
startChosen(sys, opts, t, loadOk) ==
  IF opts.enableValidation /\ ~validateConfig(sys.dr.currentConfig).isValid
  THEN [sys |-> [sys EXCEPT !.dr.status.health = "failed"], ok |-> FALSE]
  ELSE firstVersion(sys, opts,
                    IF opts.enableVersioning
                    THEN addVersion(sys.vm, sys.dr.currentConfig, "manual", t)
                    ELSE [vm |-> sys.vm, version |-> NoVersion],
                    loadOk)

isUsable(initialConfig) ==
  ~initialConfig.isNull /\ initialConfig.hasProviders /\ initialConfig.hasRouter

\* initialize(initialConfig); NullConfig stands for no argument.
initialize(sys, opts, initialConfig, t, loadOk) ==
  IF sys.dr.isInitialized THEN [sys |-> sys, ok |-> TRUE]
  ELSE startChosen(chooseConfig(sys, initialConfig, isUsable(initialConfig),
                                IF ~isUsable(initialConfig) /\ sys.disk.readable
                                THEN addVersion(sys.vm, sys.disk.config, "file-watch", t)
                                ELSE [vm |-> sys.vm, version |-> NoVersion]),
                   opts, t, loadOk)

\* ------------------------------------------------------ the control API
\* A handler's answer: the system it leaves and the HTTP status of its reply.
\* (req as any).accessLevel || "restricted"
AccessLevel(given) == IF given = None THEN "restricted" ELSE given

Reply(sys, status) == [sys |-> sys, status |-> status]

\* A handler that turns away the requests without any access only, as the GET
\* handlers do.
postConfigUnlessRestricted(sys, given, newConfig, writeOk) ==
  IF AccessLevel(given) = "restricted" THEN Reply(sys, 403)
  ELSE IF ~writeOk THEN Reply(sys, 500)
  ELSE Reply([sys EXCEPT !.disk = writeConfigFile(@, newConfig, TRUE)], 200)

\* POST /api/config: the body is written to the config file (after a backup
\* copy of the file is made beside it); a throw becomes the framework's 500.
postConfig(sys, given, newConfig, writeOk) ==
  IF AccessLevel(given) # "full" THEN Reply(sys, 403)
  ELSE IF ~writeOk THEN Reply(sys, 500)
  ELSE Reply([sys EXCEPT !.disk = writeConfigFile(@, newConfig, TRUE)], 200)

\* POST /api/config/hot-reload
postHotReload(sys, o, given, t, writeOk) ==
  IF AccessLevel(given) # "full" THEN Reply(sys, 403)
  ELSE Reply(reloadConfiguration(sys, o, t, writeOk).sys, 200)

\* POST /api/config/validate
postValidate(sys, given, body) ==
  IF AccessLevel(given) # "full" THEN Reply(sys, 403) ELSE Reply(sys, 200)

\* POST /api/config/rollback; versionId is NoId when the body has none.
postRollback(sys, o, given, versionId, t, writeOk) ==
  IF AccessLevel(given) # "full" THEN Reply(sys, 403)
  ELSE IF versionId = NoId THEN Reply(sys, 400)
  ELSE Reply(rollbackToVersion(sys, o, versionId, t, writeOk).sys, 200)

\* POST /api/restart: the reply is sent and the service restarts a second
\* later.
postRestart(sys, given) ==
  IF AccessLevel(given) # "full" THEN Reply(sys, 403) ELSE Reply(sys, 200)

\* ------------------------------------------------------ ProviderManager
\* The providers Map and the healthStatus Map are functions from every name to
\* an entry, present saying whether the Map has the key.  A probe holds the
\* Provider object and the ProviderHealthStatus object it fetched when it
\* began: probes is the set of the probes under way, each with its name and
\* whether the Maps still hold its two objects.  Timestamps and response times
\* are left out; in the result of updateProviders the three arrays are sets of
\* names.
ProviderNames == {"p1", "p2"}

NoProvider ==
  [present |-> FALSE, api_base_url |-> None, api_key |-> None, models |-> <<>>,
   transformer |-> None, status |-> None, errorCount |-> 0]
NoHealth == [present |-> FALSE, status |-> None, consecutiveFailures |-> 0]

NewPM ==
  [providers |-> [n \in ProviderNames |-> NoProvider],
   healthStatus |-> [n \in ProviderNames |-> NoHealth],
   healthCheckInterval |-> FALSE, probes |-> {}]

\* A Provider record as a caller passes it.
Provider(name, url, key, models, transformer) ==
  [name |-> name, api_base_url |-> url, api_key |-> key, models |-> models,
   transformer |-> transformer]

\* validateProvider: TRUE when it does not throw.  new URL() accepts the URLs
\* of the model except "not a url".
validateProvider(provider) ==
  /\ provider.name # ""
  /\ provider.api_base_url # ""
  /\ provider.api_key # ""
  /\ Len(provider.models) > 0
  /\ provider.api_base_url # "not a url"

\* A comparison that looks at the URL and the key only.
urlOrKeyChanged(existing, updated) ==
  \/ existing.api_base_url # updated.api_base_url
  \/ existing.api_key # updated.api_key

hasProviderChanged(existing, updated) ==
  \/ existing.api_base_url # updated.api_base_url
  \/ existing.api_key # updated.api_key
  \/ existing.models # updated.models
  \/ existing.transformer # updated.transformer

\* An error handler that gives up at the second failure.
failedAtSecondFailure(provider, healthStatus) ==
  LET failures == healthStatus.consecutiveFailures + 1
  IN [provider |-> [provider EXCEPT !.errorCount = @ + 1,
                                    !.status = IF failures >= 2 THEN "failed" ELSE "inactive"],
      healthStatus |-> [healthStatus EXCEPT
                          !.consecutiveFailures = failures,
                          !.status = IF failures >= 2 THEN "failed" ELSE "degraded"]]

handleProviderError(provider, healthStatus) ==
  LET failures == healthStatus.consecutiveFailures + 1
  IN [provider |-> [provider EXCEPT !.errorCount = @ + 1,
                                    !.status = IF failures >= 3 THEN "failed" ELSE "inactive"],
      healthStatus |-> [healthStatus EXCEPT
                          !.consecutiveFailures = failures,
                          !.status = IF failures >= 3 THEN "failed" ELSE "degraded"]]

\* What a probe can come to: an answer below 500 in time, one that took more
\* than 5000 ms, and an answer of 500 or more or no answer at all.
Outcomes == {"ok", "slow", "error"}

\* checkProviderHealth once the request has ended, on the two objects the
\* probe holds.
probed(provider, healthStatus, outcome) ==
  IF outcome = "error" THEN handleProviderError(provider, healthStatus)
  ELSE [provider |-> [provider EXCEPT !.status = "active", !.errorCount = 0],
        healthStatus |-> [healthStatus EXCEPT
                            !.status = IF outcome = "slow" THEN "degraded" ELSE "healthy",
                            !.consecutiveFailures = 0]]

\* A probe's end that writes its result to every provider of the table: what
\* C33 must exclude.
completeProbeOfAll(m, probe, outcome) ==
  [m EXCEPT !.healthStatus = [n \in ProviderNames |->
                                IF m.providers[n].present
                                THEN probed(m.providers[n], m.healthStatus[n], outcome).healthStatus
                                ELSE m.healthStatus[n]],
            !.providers = [n \in ProviderNames |->
                             IF m.providers[n].present
                             THEN probed(m.providers[n], m.healthStatus[n], outcome).provider
                             ELSE m.providers[n]],
            !.probes = @ \ {probe}]

\* The end of a probe: its writes reach the Maps' entries that still are the
\* objects it holds.
completeProbe(m, probe, outcome) ==
  LET p == m.providers[probe.name]
      h == m.healthStatus[probe.name]
  IN IF probe.health
     THEN [m EXCEPT !.healthStatus[probe.name] = probed(p, h, outcome).healthStatus,
                    !.providers[probe.name] =
                       IF probe.provider THEN probed(p, h, outcome).provider ELSE p,
                    !.probes = @ \ {probe}]
     ELSE [m EXCEPT !.probes = @ \ {probe}]

\* The probe checkProviderHealth(name) begins.
ProbeOf(name) == [name |-> name, provider |-> TRUE, health |-> TRUE]

\* The probes under way once the Maps' objects for the names are replaced.
Replaced(probes, names, health) ==
  {IF probe.name \in names
   THEN [probe EXCEPT !.provider = FALSE, !.health = @ /\ ~health]
   ELSE probe : probe \in probes}

\* await checkProviderHealth(name), the probe coming to outcome: nothing when
\* the name is gone.
checkProviderHealth(m, name, outcome) ==
  IF m.providers[name].present THEN completeProbe(m, ProbeOf(name), outcome) ELSE m

\* performHealthCheck(): a probe begins for every provider; nobody awaits them.
performHealthCheck(m) ==
  [m EXCEPT !.probes = @ \cup {ProbeOf(n) : n \in {k \in ProviderNames : m.providers[k].present}}]

startHealthChecks(m) ==
  IF m.healthCheckInterval THEN m
  ELSE [performHealthCheck(m) EXCEPT !.healthCheckInterval = TRUE]

stopHealthChecks(m) == [m EXCEPT !.healthCheckInterval = FALSE]

\* addProvider(provider) after validateProvider.
addProvider(m, provider, outcome) ==
  checkProviderHealth(
    [m EXCEPT !.providers[provider.name] =
                 [present |-> TRUE,
                  api_base_url |-> provider.api_base_url, api_key |-> provider.api_key,
                  models |-> provider.models, transformer |-> provider.transformer,
                  status |-> "inactive", errorCount |-> 0],
              !.healthStatus[provider.name] =
                 [present |-> TRUE, status |-> "unknown", consecutiveFailures |-> 0]],
    provider.name, outcome)

\* updateProvider(provider) after validateProvider: the new object takes the
\* place of the old one and keeps its status.
updateProvider(m, provider, outcome) ==
  LET existingProvider == m.providers[provider.name]
      stored == [m EXCEPT !.providers[provider.name] =
                            [existingProvider EXCEPT
                               !.api_base_url = provider.api_base_url,
                               !.api_key = provider.api_key,
                               !.models = provider.models,
                               !.transformer = provider.transformer],
                          !.probes = Replaced(@, {provider.name}, FALSE)]
  IN IF \/ existingProvider.api_base_url # provider.api_base_url
        \/ existingProvider.api_key # provider.api_key
     THEN checkProviderHealth(stored, provider.name, outcome)
     ELSE stored

NoResult ==
  [success |-> TRUE, providersAdded |-> {}, providersRemoved |-> {},
   providersUpdated |-> {}, errors |-> {}]

\* The body of updateProviders' second loop for one provider; s is the
\* manager with the result so far.
processProvider(s, provider, outcome) ==
  IF s.pm.providers[provider.name].present
  THEN IF ~hasProviderChanged(s.pm.providers[provider.name], provider) THEN s
       ELSE IF ~validateProvider(provider)
       THEN [s EXCEPT !.result.success = FALSE, !.result.errors = @ \cup {provider.name}]
       ELSE [pm |-> updateProvider(s.pm, provider, outcome),
             result |-> [s.result EXCEPT !.providersUpdated = @ \cup {provider.name}]]
  ELSE IF ~validateProvider(provider)
  THEN [s EXCEPT !.result.success = FALSE, !.result.errors = @ \cup {provider.name}]
  ELSE [pm |-> addProvider(s.pm, provider, outcome),
        result |-> [s.result EXCEPT !.providersAdded = @ \cup {provider.name}]]

RECURSIVE processProviders(_, _, _)
processProviders(s, newProviders, outcomes) ==
  IF Len(newProviders) = 0 THEN s
  ELSE processProviders(processProvider(s, Head(newProviders), outcomes[Head(newProviders).name]),
                        Tail(newProviders), outcomes)

\* updateProviders' first loop: removeProvider(name) for every name that is
\* not in the new list.
removeMissing(m, newProviderNames) ==
  [pm |-> [m EXCEPT
             !.providers = [n \in ProviderNames |->
                              IF n \in newProviderNames THEN m.providers[n] ELSE NoProvider],
             !.healthStatus = [n \in ProviderNames |->
                                 IF n \in newProviderNames THEN m.healthStatus[n]
                                 ELSE NoHealth],
             !.probes = Replaced(@, {n \in ProviderNames : m.providers[n].present}
                                    \ newProviderNames, TRUE)],
   result |-> [NoResult EXCEPT
                 !.providersRemoved = {n \in ProviderNames :
                                         m.providers[n].present /\ n \notin newProviderNames}]]

\* updateProviders' end: the health checks start when something was added or
\* updated.
finishUpdate(s) ==
  IF s.result.providersAdded # {} \/ s.result.providersUpdated # {}
  THEN [s EXCEPT !.pm = startHealthChecks(@)]
  ELSE s

\* updateProviders(newProviders); outcomes[name] is what the probe the call
\* awaits for name comes to.
updateProviders(m, newProviders, outcomes) ==
  finishUpdate(processProviders(
    removeMissing(m, {newProviders[i].name : i \in 1..Len(newProviders)}),
    newProviders, outcomes))

\* resetProviderErrors(providerName): the counters of the two objects the Maps
\* hold go to 0, the two statuses stay; false when either object is missing.
resetProviderErrors(m, providerName) ==
  IF m.providers[providerName].present /\ m.healthStatus[providerName].present
  THEN [pm |-> [m EXCEPT !.providers[providerName].errorCount = 0,
                         !.healthStatus[providerName].consecutiveFailures = 0],
        result |-> NoResult]
  ELSE [pm |-> m, result |-> [NoResult EXCEPT !.success = FALSE]]

\* ------------------------------------------------------------- the state
VARIABLES
  vm,       \* the ConfigVersionManager
  rgm,      \* the RouterGroupManager
  dr,       \* the DynamicRouter's own fields
  disk,     \* the config file
  opts,     \* DynamicRouterOptions, fixed at construction
  now,      \* the last value Date.now() returned
  ops,      \* the number of calls (of steps, when calls interleave) made so far
  last,     \* the last call made and what it returned
  pipes,    \* where each asynchronous update or rollback stands, and its locals
  route,    \* where the route() call in flight stands, and its locals
  watcher,  \* the ConfigWatcher: checksum, debounce timer, the events emitted
  pm        \* the ProviderManager

vars == <<vm, rgm, dr, disk, opts, now, ops, last, pipes, route, watcher, pm>>

Sys == [vm |-> vm, rgm |-> rgm, dr |-> dr, disk |-> disk]

Option(validation, versioning, rollback, routerPath) ==
  [enableValidation |-> validation, enableVersioning |-> versioning,
   rollbackOnFailure |-> rollback, customRouterPath |-> routerPath]
\* The defaults, then rollbackOnFailure off, then enableValidation off.
Options ==
  {Option(TRUE, TRUE, TRUE, FALSE), Option(TRUE, TRUE, FALSE, FALSE),
   Option(FALSE, TRUE, TRUE, FALSE)}

\* What a call left behind for the properties to read: its name, whether it
\* returned true / success, whether validation rejected the candidate, the
\* version id it was given, and whether validation reported a high-severity error.
Call(op, ok, invalid, id, errors) ==
  [op |-> op, ok |-> ok, invalid |-> invalid, id |-> id,
   high |-> \E e \in errors : e.severity = "high"]

\* An update or rollback that is not running.
Idle == [pc |-> "idle", config |-> NullConfig, obj |-> ExtObj, source |-> None,
         versionId |-> NoId]
NoView == EmptyObject
\* A routing call: where it is, the merged view when it began, the view it
\* handed to the router (rules: whether it called the router), what the custom
\* router returned (model) and what the call set req.body.model to (target).
NoRoute == [pc |-> "idle", atStart |-> NoView, handed |-> NoView, custom |-> FALSE,
            rules |-> FALSE, model |-> None, target |-> None]
NoWatcher == [watching |-> FALSE, checksum |-> Unreadable, timer |-> FALSE, events |-> <<>>]

\* Nothing runs concurrently: every call returns before the next one is made.
NoAsync ==
  /\ pipes = [p \in {"watch", "api"} |-> Idle]
  /\ route = NoRoute
  /\ watcher = NoWatcher

Init ==
  /\ vm = NewVM
  /\ rgm = NewRGM
  /\ dr = NewDR
  /\ disk \in {File(CfgB), Unreadable}
  /\ opts \in Options
  /\ now = 0
  /\ ops = 0
  /\ pm = NewPM
  /\ last = Call("new", TRUE, FALSE, NoId, {})
  /\ NoAsync

Install(sys) ==
  /\ vm' = sys.vm
  /\ rgm' = sys.rgm
  /\ dr' = sys.dr
  /\ disk' = sys.disk

\* A call that reads Date.now(): the clock has not gone back since the last
\* reading, and may not have advanced either.
Clock(t) ==
  /\ t \in {now, now + 1}
  /\ now' = t

Step(bound) ==
  /\ ops < bound
  /\ ops' = ops + 1

Initialize ==
  /\ ~dr.isInitialized
  /\ Step(MaxOps)
  /\ \E initialConfig \in {NullConfig, CfgA, CfgBadProvider},
        loadOk \in {b \in BOOLEAN : opts.customRouterPath \/ b}, t \in 0..MaxOps :
       /\ Clock(t)
       /\ LET r == initialize(Sys, opts, initialConfig, t, loadOk)
          IN /\ Install(r.sys)
             /\ last' = Call("initialize", r.ok, FALSE, NoId, {})
  /\ UNCHANGED <<opts, pipes, route, watcher, pm>>

UpdateConfiguration ==
  /\ Step(MaxOps)
  /\ \E newConfig \in Candidates, writeOk \in BOOLEAN, t \in 0..MaxOps :
       /\ Clock(t)
       /\ LET r == updateConfiguration(Sys, opts, newConfig, ExtObj, "api", t, writeOk)
          IN /\ Install(r.sys)
             /\ last' = Call("update", r.success, r.invalid, NoId, r.errors)
  /\ UNCHANGED <<opts, pipes, route, watcher, pm>>

ReloadConfiguration ==
  /\ Step(MaxOps)
  /\ \E writeOk \in BOOLEAN, t \in 0..MaxOps :
       /\ Clock(t)
       /\ LET r == reloadConfiguration(Sys, opts, t, writeOk)
          IN /\ Install(r.sys)
             /\ last' = Call("reload", r.success, r.invalid, NoId, r.errors)
  /\ UNCHANGED <<opts, pipes, route, watcher, pm>>

RollbackToVersion ==
  /\ Step(MaxOps)
  /\ \E i \in 1..Len(vm.versions), writeOk \in BOOLEAN, t \in 0..MaxOps :
       /\ Clock(t)
       /\ LET r == rollbackToVersion(Sys, opts, vm.versions[i].id, t, writeOk)
          IN /\ Install(r.sys)
             /\ last' = Call("rollback", r.ok, FALSE, vm.versions[i].id, {})
  /\ UNCHANGED <<opts, pipes, route, watcher, pm>>

SwitchGroup(bound) ==
  /\ Step(bound)
  /\ \E groupId \in GroupIds :
       LET r == switchToGroup(Sys, groupId)
       IN /\ Install(r.sys)
          /\ last' = Call("switch", r.ok, FALSE, NoId, {})
  /\ UNCHANGED <<opts, now, pipes, route, watcher, pm>>

SwitchRouterGroup == SwitchGroup(MaxOps)

\* The operator edits the config file.
EditFile ==
  /\ Step(MaxOps)
  /\ \E f \in {File(c) : c \in FileContents} \cup {Unreadable} :
       /\ f # disk
       /\ disk' = f
  /\ last' = Call("edit", TRUE, FALSE, NoId, {})
  /\ UNCHANGED <<vm, rgm, dr, opts, now, pipes, route, watcher, pm>>

Next ==
  \/ Initialize
  \/ UpdateConfiguration
  \/ ReloadConfiguration
  \/ RollbackToVersion
  \/ SwitchRouterGroup
  \/ EditFile

Spec == Init /\ [][Next]_vars

\* ------------------------------- the ConfigVersionManager on its own
InitVM ==
  /\ vm = NewVM
  /\ rgm = NewRGM
  /\ dr = NewDR
  /\ disk = File(CfgA)
  /\ opts = Option(TRUE, TRUE, TRUE, FALSE)
  /\ now = 0
  /\ ops = 0
  /\ pm = NewPM
  /\ last = Call("new", TRUE, FALSE, NoId, {})
  /\ NoAsync

VersionConfigs == {CfgA, CfgAk, CfgB, CfgBr}

AddVersion ==
  /\ Step(MaxOps)
  /\ \E config \in VersionConfigs, source \in {"manual", "api"}, t \in 0..MaxOps :
       /\ Clock(t)
       /\ LET r == addVersion(vm, config, source, t)
          IN /\ vm' = r.vm
             /\ last' = Call("addVersion", r.vm # vm, FALSE, r.version.id, {})
  /\ UNCHANGED <<rgm, dr, disk, opts, pipes, route, watcher, pm>>

VMRollbackToVersion ==
  /\ Step(MaxOps)
  /\ \E i \in 1..Len(vm.versions), writeOk \in BOOLEAN, t \in 0..MaxOps :
       /\ Clock(t)
       /\ LET r == vmRollbackToVersion(vm, vm.versions[i].id, t, writeOk)
          IN /\ vm' = r.vm
             /\ disk' = writeConfigFile(disk, r.config, r.wrote)
             /\ last' = Call("vmRollback", r.ok, FALSE, vm.versions[i].id, {})
  /\ UNCHANGED <<rgm, dr, opts, pipes, route, watcher, pm>>

DeleteVersion ==
  /\ Step(MaxOps)
  /\ \E i \in 1..Len(vm.versions) :
       /\ vm' = deleteVersion(vm, vm.versions[i].id)
       /\ last' = Call("deleteVersion", vm' # vm, FALSE, vm.versions[i].id, {})
  /\ UNCHANGED <<rgm, dr, disk, opts, now, pipes, route, watcher, pm>>

NextVM ==
  \/ AddVersion
  \/ VMRollbackToVersion
  \/ DeleteVersion

SpecVM == InitVM /\ [][NextVM]_vars

\* ------------------------------------------------- calls that interleave
\* An asynchronous method runs until its next await: what it does between two
\* awaits is one step, and steps of different calls interleave.  pipes.watch is
\* the update handleConfigChange started, pipes.api the rollback the
\* /api/config/rollback endpoint started.

\* ConfigWatcher.startWatching: the checksum of the file as it is.
startWatching(file) ==
  [watching |-> TRUE, checksum |-> file, timer |-> FALSE, events |-> <<>>]

\* ConfigWatcher.handleFileChange up to setTimeout: the one debounce timer is
\* cleared and set again.
handleFileChange(w) == IF w.watching THEN [w EXCEPT !.timer = TRUE] ELSE w

\* The body of the debounce timer: nothing when the checksum is the recorded
\* one; else the checksum is recorded and the change event emitted.  fate says
\* what handleConfigChange did with the event.
recordEvent(w, file, fate) ==
  [w EXCEPT !.timer = FALSE, !.checksum = file,
            !.events = Append(@, [content |-> file.config, fate |-> fate])]

\* handleConfigChange(changeEvent) up to its await: skipped when
\* updateInProgress is set; else the flag is set and updateConfiguration
\* (content, 'file-watch') runs up to its await of validateConfig.
handleConfigChange(d, pipe, file) ==
  IF d.updateInProgress
  THEN [dr |-> d, pipe |-> pipe, fate |-> "skipped"]
  ELSE [dr |-> [d EXCEPT !.updateInProgress = TRUE],
        pipe |-> [Idle EXCEPT !.pc = "validating", !.config = file.config,
                              !.source = "file-watch"],
        fate |-> "attempted"]

\* The end of a pipeline: handleConfigChange's finally clears the flag.
finish(sys, p) ==
  IF p = "watch" THEN [sys EXCEPT !.dr.updateInProgress = FALSE] ELSE sys

\* DynamicRouter.rollbackToVersion, and the version manager's, up to the
\* await of writeConfigFile.
beginRollback(sys, p, versionId, t) ==
  IF ~Has(sys.vm.versions, versionId)
  THEN [sys |-> finish(sys, p), pipe |-> Idle]
  ELSE [sys |-> [sys EXCEPT !.vm = vmRollbackToVersion(@, versionId, t, TRUE).vm],
        pipe |-> [Idle EXCEPT !.pc = "writing", !.versionId = versionId,
                              !.config = Get(sys.vm.versions, versionId).config]]

\* updateConfiguration's rejection: performRollback up to the await.
beginPerformRollback(sys, p, versions, first, t) ==
  IF first = 0 THEN [sys |-> finish(sys, p), pipe |-> Idle]
  ELSE beginRollback(sys, p, versions[first].id, t)

\* updateConfiguration after validateConfig returns.
afterValidation(sys, o, p, pipe, t) ==
  IF o.enableValidation /\ ~validateConfig(pipe.config).isValid
  THEN IF o.rollbackOnFailure /\ o.enableVersioning
       THEN beginPerformRollback(sys, p, getAllVersions(sys.vm),
                                 FirstInactive(getAllVersions(sys.vm)), t)
       ELSE [sys |-> finish(sys, p), pipe |-> Idle]
  ELSE [sys |-> finish(applyUpdate(sys, o, pipe.config, pipe.obj,
                                   addVersion(sys.vm, pipe.config, pipe.source, t),
                                   {}).sys, p),
        pipe |-> Idle]

\* rollbackToVersion after the await of writeConfigFile.
afterWrite(sys, p, pipe, writeOk) ==
  finish(completeRollback([sys EXCEPT !.disk = writeConfigFile(@, pipe.config, writeOk)],
                          pipe.versionId, writeOk).sys, p)

\* A route that hands the router the Router block of the current config
\* instead of the merged view: what C22 must exclude.
routeStartBaseRouter(d, view) ==
  IF d.currentCustomRouter /\ d.currentConfig.CUSTOM_ROUTER_PATH
  THEN [NoRoute EXCEPT !.pc = "custom", !.atStart = view]
  ELSE [NoRoute EXCEPT !.pc = "done", !.atStart = view,
                       !.handed = RouterBlock(d.currentConfig), !.rules = TRUE]

\* route(req, res) up to its first await: the custom router is awaited when
\* there is one, else the merged view is handed to the router right away.
routeStart(d, view) ==
  IF d.currentCustomRouter /\ d.currentConfig.CUSTOM_ROUTER_PATH
  THEN [NoRoute EXCEPT !.pc = "custom", !.atStart = view]
  ELSE [NoRoute EXCEPT !.pc = "done", !.atStart = view, !.handed = view, !.rules = TRUE]

\* if (model): null, undefined and '' are falsy.
Truthy(model) == model # None /\ model # ""

\* A route that takes whatever the custom router returned that is not null:
\* what C19 must exclude.
routeResumeNotNull(r, model, view) ==
  IF model # None
  THEN [r EXCEPT !.pc = "done", !.custom = TRUE, !.model = model, !.target = model]
  ELSE [r EXCEPT !.pc = "done", !.handed = view, !.rules = TRUE, !.model = model]

\* route after the custom router returns model: req.body.model = model when it
\* is truthy, else the merged view as it is now goes to the router.
routeResume(r, model, view) ==
  IF Truthy(model)
  THEN [r EXCEPT !.pc = "done", !.custom = TRUE, !.model = model, !.target = model]
  ELSE [r EXCEPT !.pc = "done", !.handed = view, !.rules = TRUE, !.model = model]

\* ./router, the rules of the routing decision: the first that matches wins.
\* A request says what the rules look at: the target its subagent marker
\* names (None without a marker), whether it advertises web search, its token
\* count, whether it asks for thinking, whether its model is a background one.
DefaultLongContextThreshold == 60000
LongContextThreshold(view) ==
  IF "longContextThreshold" \in DOMAIN view THEN view.longContextThreshold
  ELSE DefaultLongContextThreshold

originalRouter(req, view) ==
  IF req.subagent # None THEN req.subagent
  ELSE IF req.webSearch /\ ViewField(view, "webSearch") # None THEN view.webSearch
  ELSE IF req.tokenCount >= LongContextThreshold(view)
          /\ ViewField(view, "longContext") # None THEN view.longContext
  ELSE IF req.thinking /\ ViewField(view, "think") # None THEN view.think
  ELSE IF req.background /\ ViewField(view, "background") # None THEN view.background
  ELSE ViewField(view, "default")

\* An error handler that also gives up the current config: what C34 must
\* exclude.
handleRouterErrorDroppingConfig(d) ==
  [d EXCEPT !.status.errorCount = @ + 1, !.status.health = "degraded",
            !.currentConfig = NullConfig]

\* handleRouterError(error)
handleRouterError(d) ==
  [d EXCEPT !.status.errorCount = @ + 1,
            !.status.health = IF d.status.errorCount + 1 > 5 THEN "failed"
                              ELSE IF d.status.errorCount + 1 > 2 THEN "degraded"
                              ELSE @]

\* A routing call that has ended: the request, what the custom router did,
\* whether route() threw, whether the rules chose, the view they were given
\* and the request's target at the end.
Routed(req, outcome, threw, rules, view, target) ==
  [op |-> "route", ok |-> ~threw, req |-> req, outcome |-> outcome, threw |-> threw,
   rules |-> rules, handed |-> view, target |-> target]

\* route()'s catch block for an error of the custom router: the error is
\* counted, req.body.model becomes the current group's default or else
\* Router.default, and the error is thrown again.
routeCaught(d, g, req) ==
  [dr |-> handleRouterError(d),
   route |-> Routed(req, "throws", TRUE, FALSE, NoView,
                    IF getCurrentRouterConfig(g).defined
                       /\ getCurrentRouterConfig(g).default # None
                    THEN getCurrentRouterConfig(g).default
                    ELSE ViewField(RouterBlock(d.currentConfig), "default"))]

\* route(req, res) from its first line to its last, the custom router coming
\* to outcome (a value it returns, or "throws") when it is called.
routeRequest(d, g, req, outcome) ==
  LET view == getMergedRouterConfig(g)
      r == routeStart(d, view)
  IN IF r.pc = "custom" /\ outcome = "throws" THEN routeCaught(d, g, req)
     ELSE IF r.pc = "custom"
     THEN [dr |-> d,
           route |-> Routed(req, outcome, FALSE, routeResume(r, outcome, view).rules,
                            routeResume(r, outcome, view).handed,
                            IF Truthy(outcome) THEN outcome
                            ELSE originalRouter(req, routeResume(r, outcome, view).handed))]
     ELSE [dr |-> d,
           route |-> Routed(req, None, FALSE, TRUE, r.handed,
                            originalRouter(req, r.handed))]

\* dynamicRouterMiddleware(req, res, config): the DynamicRouter routes when it
\* is active; when it is not, or when route() throws, the rules are applied
\* to the config the caller passed.
dynamicRouterMiddleware(d, g, req, config, outcome) ==
  LET r == routeRequest(d, g, req, outcome)
  IN IF ~d.status.isActive
     THEN [dr |-> d,
           route |-> Routed(req, None, FALSE, TRUE, RouterBlock(config),
                            originalRouter(req, RouterBlock(config)))]
     ELSE IF r.route.threw
     THEN [dr |-> r.dr,
           route |-> [r.route EXCEPT !.rules = TRUE,
                                     !.handed = RouterBlock(config),
                                     !.target = originalRouter(req, RouterBlock(config))]]
     ELSE r

AsyncContents == {CfgA, CfgB, CfgNoDefault}

InitAsync ==
  /\ vm = NewVM
  /\ rgm = NewRGM
  /\ dr = NewDR
  /\ disk = File(CfgB)
  /\ opts = Option(TRUE, TRUE, TRUE, TRUE)
  /\ now = 0
  /\ ops = 0
  /\ pm = NewPM
  /\ last = Call("new", TRUE, FALSE, NoId, {})
  /\ NoAsync

\* initialize() with enableHotReload: the watcher starts.
Start ==
  /\ ~dr.isInitialized
  /\ Step(MaxSteps)
  /\ \E t \in 0..MaxSteps :
       /\ Clock(t)
       /\ LET r == initialize(Sys, opts, NullConfig, t, TRUE)
          IN /\ Install(r.sys)
             /\ watcher' = IF r.ok THEN startWatching(disk) ELSE watcher
  /\ UNCHANGED <<opts, last, pipes, route, pm>>

\* The operator saves the file and chokidar reports the change.
FileChanged ==
  /\ dr.isInitialized
  /\ Step(MaxSteps)
  /\ \E c \in AsyncContents :
       /\ File(c) # disk
       /\ disk' = File(c)
  /\ watcher' = handleFileChange(watcher)
  /\ UNCHANGED <<vm, rgm, dr, opts, now, last, pipes, route, pm>>

\* The debounce timer fires.
DebounceFires ==
  /\ watcher.timer
  /\ Step(MaxSteps)
  /\ IF watcher.checksum = disk
     THEN /\ watcher' = [watcher EXCEPT !.timer = FALSE]
          /\ UNCHANGED <<dr, pipes>>
     ELSE LET h == handleConfigChange(dr, pipes.watch, disk)
          IN /\ watcher' = recordEvent(watcher, disk, h.fate)
             /\ dr' = h.dr
             /\ pipes' = [pipes EXCEPT !.watch = h.pipe]
  /\ UNCHANGED <<vm, rgm, disk, opts, now, last, route, pm>>

\* validateConfig returns to the update that awaits it.
Validated ==
  /\ Step(MaxSteps)
  /\ \E p \in {"watch", "api"}, t \in 0..MaxSteps :
       /\ pipes[p].pc = "validating"
       /\ Clock(t)
       /\ LET r == afterValidation(Sys, opts, p, pipes[p], t)
          IN /\ Install(r.sys)
             /\ pipes' = [pipes EXCEPT ![p] = r.pipe]
  /\ UNCHANGED <<opts, last, route, watcher, pm>>

\* writeConfigFile returns to the rollback that awaits it (or throws); the
\* watcher hears of the file it wrote.
Written ==
  /\ Step(MaxSteps)
  /\ \E p \in {"watch", "api"}, writeOk \in BOOLEAN :
       /\ pipes[p].pc = "writing"
       /\ Install(afterWrite(Sys, p, pipes[p], writeOk))
       /\ pipes' = [pipes EXCEPT ![p] = Idle]
       /\ watcher' = IF writeOk THEN handleFileChange(watcher) ELSE watcher
  /\ UNCHANGED <<opts, now, last, route, pm>>

\* POST /api/config/rollback
ApiRollback ==
  /\ dr.isInitialized
  /\ pipes.api.pc = "idle"
  /\ Step(MaxSteps)
  /\ \E i \in 1..Len(vm.versions), t \in 0..MaxSteps :
       /\ Clock(t)
       /\ LET r == beginRollback(Sys, "api", vm.versions[i].id, t)
          IN /\ Install(r.sys)
             /\ pipes' = [pipes EXCEPT !.api = r.pipe]
  /\ UNCHANGED <<opts, last, route, watcher, pm>>

\* A request reaches dynamicRouterMiddleware.
RouteStart ==
  /\ dr.isInitialized /\ ~dr.currentConfig.isNull
  /\ route.pc # "custom"
  /\ Step(MaxSteps)
  /\ route' = routeStart(dr, getMergedRouterConfig(rgm))
  /\ UNCHANGED <<vm, rgm, dr, disk, opts, now, last, pipes, watcher, pm>>

CustomRouterReturns ==
  /\ route.pc = "custom"
  /\ Step(MaxSteps)
  /\ \E model \in {None, "", "p1,m1"} :
       route' = routeResume(route, model, getMergedRouterConfig(rgm))
  /\ UNCHANGED <<vm, rgm, dr, disk, opts, now, last, pipes, watcher, pm>>

NextAsync ==
  \/ Start
  \/ FileChanged
  \/ DebounceFires
  \/ Validated
  \/ Written
  \/ ApiRollback
  \/ RouteStart
  \/ CustomRouterReturns
  \/ (dr.isInitialized /\ SwitchGroup(MaxSteps))

SpecAsync == InitAsync /\ [][NextAsync]_vars

\* ------------------------------------------------ router groups
\* The DynamicRouter with configs that differ in their RouterGroups and
\* Router.activeGroup, versioning off: initialize, updateConfiguration,
\* switchRouterGroup and the RouterGroupManager's removeRouterGroup.
GroupOne == [Group("p1,m1") EXCEPT !.description = "text"]
GroupTwo == [Group("p2,m2") EXCEPT !.think = "p1,m1"]
GroupDangling == Group("pX,mz")

GroupsOf(one, two) == [g \in GroupIds |-> IF g = "router1" THEN one ELSE two]

\* Providers p1 and p2, Router {default: "p2,m2", think: "p2,m2"} and the
\* given Router.activeGroup and RouterGroups.
GroupConfig(ag, groups) ==
  [MkConfig(0, TRUE, {"p1", "p2"}, TRUE, "p2,m2", ag, groups, FALSE)
     EXCEPT !.think = "p2,m2"]

GrpNone == GroupConfig(None, NoGroups)
GrpTwo == GroupConfig(None, GroupsOf(GroupOne, GroupTwo))
GrpTwoActive2 == GroupConfig("router2", GroupsOf(GroupOne, GroupTwo))
GrpOnly2 == GroupConfig(None, GroupsOf(NoGroup, GroupTwo))
GrpUndefinedActive == GroupConfig("router2", GroupsOf(GroupOne, NoGroup))
GrpDangling == GroupConfig(None, GroupsOf(GroupDangling, GroupTwo))

GroupConfigs == {GrpNone, GrpTwo, GrpTwoActive2, GrpOnly2, GrpUndefinedActive, GrpDangling}

\* What a call left behind: its name, what it returned, the group id it was
\* given and the events the RouterGroupManager emitted.
GroupCall(op, ok, groupId, events) ==
  [op |-> op, ok |-> ok, id |-> groupId, events |-> events]

InitGroups ==
  /\ vm = NewVM
  /\ rgm = NewRGM
  /\ dr = NewDR
  /\ disk = Unreadable
  /\ opts \in {Option(TRUE, FALSE, FALSE, FALSE), Option(FALSE, FALSE, FALSE, FALSE)}
  /\ now = 0
  /\ ops = 0
  /\ pm = NewPM
  /\ last = GroupCall("new", TRUE, None, <<>>)
  /\ NoAsync

GroupsInitialize ==
  /\ ~dr.isInitialized
  /\ Step(MaxOps)
  /\ \E initialConfig \in GroupConfigs :
       LET r == initialize(Sys, opts, initialConfig, now, TRUE)
       IN /\ Install(r.sys)
          /\ last' = GroupCall("initialize", r.ok, None, <<>>)
  /\ UNCHANGED <<opts, now, pipes, route, watcher, pm>>

GroupsUpdate ==
  /\ Step(MaxOps)
  /\ \E newConfig \in GroupConfigs :
       LET r == updateConfiguration(Sys, opts, newConfig, ExtObj, "api", now, TRUE)
       IN /\ Install(r.sys)
          /\ last' = GroupCall("update", r.success, None, <<>>)
  /\ UNCHANGED <<opts, now, pipes, route, watcher, pm>>

\* POST /api/router-groups/switch with any groupId.
GroupsSwitch ==
  /\ Step(MaxOps)
  /\ \E groupId \in GroupIds \cup InheritedIds :
       LET r == switchToGroup(Sys, groupId)
       IN /\ Install(r.sys)
          /\ last' = GroupCall("switch", r.ok, groupId, r.events)
  /\ UNCHANGED <<opts, now, pipes, route, watcher, pm>>

GroupsRemove ==
  /\ Step(MaxOps)
  /\ \E groupId \in GroupIds :
       LET r == removeRouterGroup(Sys, groupId)
       IN /\ Install(r.sys)
          /\ last' = GroupCall("remove", r.ok, groupId, <<>>)
  /\ UNCHANGED <<opts, now, pipes, route, watcher, pm>>

NextGroups ==
  \/ GroupsInitialize
  \/ GroupsUpdate
  \/ GroupsSwitch
  \/ GroupsRemove

SpecGroups == InitGroups /\ [][NextGroups]_vars

\* ------------------------------------------------ the custom router
\* The DynamicRouter with customRouterPath set, versioning off: initialize,
\* updateConfiguration, the change event of the custom-router file, and
\* routing calls that run to their end.
\* A call and the health it found.
CustomCall(op, ok, health) ==
  [op |-> op, ok |-> ok, invalid |-> FALSE, id |-> NoId, high |-> FALSE,
   healthBefore |-> health]

InitCustomRouter ==
  /\ vm = NewVM
  /\ rgm = NewRGM
  /\ dr = NewDR
  /\ disk = Unreadable
  /\ opts \in {Option(TRUE, FALSE, FALSE, TRUE), Option(FALSE, FALSE, FALSE, TRUE)}
  /\ now = 0
  /\ ops = 0
  /\ pm = NewPM
  /\ last = CustomCall("new", TRUE, "healthy")
  /\ NoAsync

CustomInitialize ==
  /\ ~dr.isInitialized
  /\ Step(MaxRouterOps)
  /\ \E initialConfig \in {CfgA, CfgB}, loadOk \in BOOLEAN :
       LET r == initialize(Sys, opts, initialConfig, now, loadOk)
       IN /\ Install(r.sys)
          /\ last' = CustomCall("initialize", r.ok, dr.status.health)
  /\ UNCHANGED <<opts, now, pipes, route, watcher, pm>>

CustomUpdate ==
  /\ dr.isInitialized
  /\ Step(MaxRouterOps)
  /\ \E newConfig \in {CfgA, CfgB} :
       LET r == updateConfiguration(Sys, opts, newConfig, ExtObj, "api", now, TRUE)
       IN /\ Install(r.sys)
          /\ last' = CustomCall("update", r.success, dr.status.health)
  /\ UNCHANGED <<opts, now, pipes, route, watcher, pm>>

\* handleConfigChange with the change event of the custom-router file.
CustomRouterFileChanged ==
  /\ dr.isInitialized
  /\ Step(MaxRouterOps)
  /\ \E checked \in Required, required \in Required :
       LET r == updateCustomRouter(Sys, opts, checked, required)
       IN /\ Install(r.sys)
          /\ last' = CustomCall("customRouter", r.success, dr.status.health)
  /\ UNCHANGED <<opts, now, pipes, route, watcher, pm>>

\* handleConfigChange with a change event that carries an error (the file
\* could not be read or parsed).
ChangeEventWithError ==
  /\ dr.isInitialized
  /\ Step(MaxRouterOps)
  /\ Install(handleUpdateError(Sys))
  /\ last' = CustomCall("changeError", FALSE, dr.status.health)
  /\ UNCHANGED <<opts, now, pipes, route, watcher, pm>>

\* route(req, res), the custom router returning model when it is called.
CustomRoute ==
  /\ dr.isInitialized
  /\ Step(MaxRouterOps)
  /\ \E model \in {None, "", "p1,m1"} :
       route' = IF routeStart(dr, getMergedRouterConfig(rgm)).pc = "custom"
                THEN routeResume(routeStart(dr, getMergedRouterConfig(rgm)), model,
                                 getMergedRouterConfig(rgm))
                ELSE routeStart(dr, getMergedRouterConfig(rgm))
  /\ last' = CustomCall("route", TRUE, dr.status.health)
  /\ UNCHANGED <<vm, rgm, dr, disk, opts, now, pipes, watcher, pm>>

NextCustomRouter ==
  \/ CustomInitialize
  \/ CustomUpdate
  \/ CustomRouterFileChanged
  \/ ChangeEventWithError
  \/ CustomRoute

SpecCustomRouter == InitCustomRouter /\ [][NextCustomRouter]_vars

\* ---------------------------------------------------------------- SpecRoute
\* The routing decision: the server's DynamicRouter (validation on, a custom
\* router configured by the options) is initialized, updated and switched
\* between groups while requests pass through dynamicRouterMiddleware.

\* A Router block with every route set and no threshold of its own.
RtPlain ==
  [MkConfig(0, TRUE, {"p1", "p2"}, TRUE, "p1,m1", None, NoGroups, TRUE)
   EXCEPT !.think = "p1,think", !.background = "p1,bg", !.longContext = "p1,long",
          !.webSearch = "p1,web"]
\* The same block without a custom router and with two groups; router2
\* replaces default and longContext and lowers the threshold.
LowThreshold == 30000
RtGroups ==
  [RtPlain EXCEPT
     !.CUSTOM_ROUTER_PATH = FALSE,
     !.RouterGroups = [g \in GroupIds |->
                         IF g = "router1" THEN Group("p1,m1")
                         ELSE [Group("p2,m2") EXCEPT !.longContext = "p2,long",
                                                      !.longContextThreshold = LowThreshold]]]
\* The groups with a custom router and router2 active.
RtGroupsActive2 == [RtGroups EXCEPT !.CUSTOM_ROUTER_PATH = TRUE, !.activeGroup = "router2"]
\* A block with default and think only.
RtBare ==
  [MkConfig(0, TRUE, {"p1", "p2"}, TRUE, "p2,m2", None, NoGroups, TRUE)
   EXCEPT !.think = "p1,think"]
RouteConfigs == {RtPlain, RtGroups, RtGroupsActive2, RtBare}

\* The requests: with or without a subagent marker, advertising web search or
\* not, thinking or not, a background model or not, with a token count on
\* either side of each threshold.
TokenCounts == {LowThreshold - 1, LowThreshold, DefaultLongContextThreshold - 1,
                DefaultLongContextThreshold}
Requests ==
  [subagent : {None, "pX,mz"}, webSearch : BOOLEAN, thinking : BOOLEAN,
   background : BOOLEAN, tokenCount : TokenCounts]
\* What the custom router comes to when it is called.
CustomOutcomes == {None, "p1,m1", "throws"}
\* The documents the middleware's caller may hold.
CallerConfigs == {RtPlain, RtGroupsActive2}
\* The number of calls made on the router and the middleware.
MaxRouteOps == 3

\* The last call made: a call other than a request carries no request.
NoRequest == [subagent |-> None, webSearch |-> FALSE, thinking |-> FALSE,
              background |-> FALSE, tokenCount |-> 0]
RouteCall(op, ok) ==
  [op |-> op, ok |-> ok, req |-> NoRequest, outcome |-> None, threw |-> FALSE,
   rules |-> FALSE, handed |-> NoView, target |-> None]

InitRoute ==
  /\ vm = NewVM
  /\ rgm = NewRGM
  /\ dr = NewDR
  /\ disk = Unreadable
  /\ opts = Option(TRUE, TRUE, TRUE, TRUE)
  /\ now = 0
  /\ ops = 0
  /\ pm = NewPM
  /\ last = RouteCall("new", TRUE)
  /\ NoAsync

RouteInitialize ==
  /\ ~dr.isInitialized
  /\ Step(MaxRouteOps)
  /\ \E initialConfig \in RouteConfigs, loadOk \in BOOLEAN :
       LET r == initialize(Sys, opts, initialConfig, now, loadOk)
       IN /\ Install(r.sys)
          /\ last' = RouteCall("initialize", r.ok)
  /\ UNCHANGED <<opts, now, pipes, route, watcher, pm>>

RouteUpdate ==
  /\ dr.isInitialized
  /\ Step(MaxRouteOps)
  /\ \E newConfig \in RouteConfigs :
       LET r == updateConfiguration(Sys, opts, newConfig, ExtObj, "api", now, TRUE)
       IN /\ Install(r.sys)
          /\ last' = RouteCall("update", r.success)
  /\ UNCHANGED <<opts, now, pipes, route, watcher, pm>>

RouteSwitch ==
  /\ dr.isInitialized
  /\ Step(MaxRouteOps)
  /\ \E groupId \in GroupIds :
       LET r == switchToGroup(Sys, groupId)
       IN /\ Install(r.sys)
          /\ last' = RouteCall("switch", r.ok)
  /\ UNCHANGED <<opts, now, pipes, route, watcher, pm>>

\* A request passes through dynamicRouterMiddleware; config is the document
\* the caller holds.
RouteRequest ==
  /\ Step(MaxRouteOps)
  /\ \E req \in Requests, outcome \in CustomOutcomes, config \in CallerConfigs :
       LET r == dynamicRouterMiddleware(dr, rgm, req, config, outcome)
       IN /\ dr' = r.dr
          /\ last' = r.route
  /\ UNCHANGED <<vm, rgm, disk, opts, now, pipes, route, watcher, pm>>

NextRoute ==
  \/ RouteInitialize
  \/ RouteUpdate
  \/ RouteSwitch
  \/ RouteRequest

SpecRoute == InitRoute /\ [][NextRoute]_vars

\* ------------------------------------------------------------ SpecValidator
\* validateConfig as a function of the document and of what the connectivity
\* tests find.
CfgNoProviders == MkConfig(0, FALSE, {}, TRUE, "p1,m1", None, NoGroups, FALSE)
CfgNoRouter == MkConfig(0, TRUE, {"p1"}, FALSE, None, None, NoGroups, FALSE)
\* Router.longContextThreshold is negative.
CfgBadThreshold == [CfgA EXCEPT !.longContextThreshold = 0 - 1]
\* A dangling route and a negative threshold.
CfgDanglingBadThreshold == [CfgDangling EXCEPT !.longContextThreshold = 0 - 1]
\* A route other than default names a provider the document lacks.
CfgDanglingThink == [CfgA EXCEPT !.think = "p2,m2"]
ValidatorConfigs ==
  {NullConfig, CfgA, CfgB, CfgNoDefault, CfgDangling, CfgBadProvider, CfgNoProviders,
   CfgNoRouter, CfgBadThreshold, CfgDanglingBadThreshold, CfgDanglingThink, RtPlain,
   RtGroupsActive2}

\* A call: the document, what the connectivity tests found, the result.
ValidatorCall(op, config, reach) ==
  [op |-> op, config |-> config, reach |-> reach, result |-> validationResult(config, reach)]

InitValidator ==
  /\ vm = NewVM
  /\ rgm = NewRGM
  /\ dr = NewDR
  /\ disk = Unreadable
  /\ opts = Option(TRUE, FALSE, FALSE, FALSE)
  /\ now = 0
  /\ ops = 0
  /\ pm = NewPM
  /\ last = ValidatorCall("new", NullConfig, [n \in ProviderNames |-> "ok"])
  /\ NoAsync

ValidateConfig ==
  /\ \E config \in ValidatorConfigs, reach \in [ProviderNames -> Reach] :
       last' = ValidatorCall("validateConfig", config, reach)
  /\ UNCHANGED <<vm, rgm, dr, disk, opts, now, ops, pipes, route, watcher, pm>>

NextValidator == ValidateConfig

SpecValidator == InitValidator /\ [][NextValidator]_vars

\* ------------------------------------------- the ConfigWatcher on its own
\* The watcher with both of its paths and with time: the files change, chokidar
\* notifies, the one debounce timer is set, cleared and fires.  disk maps a
\* path to the content of the file (Missing when there is none), now is the
\* time in units of which debounceMs is debounceMs units.

\* A run of the watcher makes at most MaxWatch calls and lasts MaxTime units.
MaxWatch == 5
MaxTime == 5

\* options.debounceMs (500 in the code), in the units of the model's time.
debounceMs == 2

Missing == "missing"
ConfigPath == "config.json"
RouterPath == "router.js"
Paths == {ConfigPath, RouterPath}
Contents == {"a", "b"}

\* createHash('md5').update(content).digest('hex') for the contents the model
\* writes (the first four digits).
Md5(content) ==
  CASE content = "a" -> "0cc1"
    [] content = "b" -> "92eb"
    [] OTHER -> "d41d"

\* ConfigWatcher.calculateChecksum: '' when the file cannot be read.
ConfigWatcher_calculateChecksum(files, path) ==
  IF files[path] = Missing THEN "" ELSE Md5(files[path])

\* currentChecksums.get(path) when the Map has no entry for the path.
Undefined == "undefined"
NoTimer == [set |-> FALSE, path |-> None, due |-> 0]

NewWatcher ==
  [isWatching |-> FALSE, currentChecksums |-> [p \in Paths |-> Undefined],
   debounceTimer |-> NoTimer, emitted |-> <<>>, reported |-> <<>>]

getFileType(path) == IF path = ConfigPath THEN "config" ELSE "custom-router"

\* createChangeEvent: a .json file is read and parsed (a failure goes to the
\* event's error field); for a .js file the content is {customRouterPath: path}
\* and the file is not read.
ConfigWatcher_createChangeEvent(files, path, checksum, t) ==
  [type |-> getFileType(path), path |-> path, checksum |-> checksum, timestamp |-> t,
   content |-> IF path = ConfigPath
               THEN (IF files[path] = Missing THEN Undefined ELSE files[path])
               ELSE "customRouterPath:" \o path,
   error |-> path = ConfigPath /\ files[path] = Missing]

\* startWatching: the checksum of every watched file that exists is recorded.
ConfigWatcher_startWatching(w, files) ==
  IF w.isWatching THEN w
  ELSE [w EXCEPT !.isWatching = TRUE,
                 !.currentChecksums =
                    [p \in Paths |-> IF files[p] = Missing THEN w.currentChecksums[p]
                                     ELSE ConfigWatcher_calculateChecksum(files, p)]]

\* A handler that sets a timer of no delay: what C11 must exclude.
handleFileChangeNoDelay(w, path, t) ==
  [w EXCEPT !.debounceTimer = [set |-> TRUE, path |-> path, due |-> t]]

\* handleFileChange(path): clearTimeout, then setTimeout(..., debounceMs).
ConfigWatcher_handleFileChange(w, path, t) ==
  [w EXCEPT !.debounceTimer = [set |-> TRUE, path |-> path, due |-> t + debounceMs]]

\* A callback that emits without comparing checksums: what C12 must exclude.
timeoutWithoutComparison(w, files, t) ==
  [w EXCEPT !.debounceTimer.set = FALSE,
            !.currentChecksums[w.debounceTimer.path] =
               ConfigWatcher_calculateChecksum(files, w.debounceTimer.path),
            !.emitted = Append(@, ConfigWatcher_createChangeEvent(files,
                           w.debounceTimer.path,
                           ConfigWatcher_calculateChecksum(files, w.debounceTimer.path), t))]

\* The callback handleFileChange gave to setTimeout.
ConfigWatcher_timeout(w, files, t) ==
  LET path == w.debounceTimer.path
      newChecksum == ConfigWatcher_calculateChecksum(files, path)
  IN IF w.currentChecksums[path] = newChecksum
     THEN [w EXCEPT !.debounceTimer.set = FALSE]
     ELSE [w EXCEPT !.debounceTimer.set = FALSE,
                    !.currentChecksums[path] = newChecksum,
                    !.emitted = Append(@, ConfigWatcher_createChangeEvent(files, path,
                                                                        newChecksum, t))]

\* checkForChanges, for one path of its loop.
checkPath(w, files, path, t) ==
  IF files[path] = Missing
       \/ w.currentChecksums[path] = ConfigWatcher_calculateChecksum(files, path)
  THEN w
  ELSE [w EXCEPT !.currentChecksums[path] = ConfigWatcher_calculateChecksum(files, path),
                 !.reported = Append(@, ConfigWatcher_createChangeEvent(files, path,
                                  ConfigWatcher_calculateChecksum(files, path), t))]

checkForChanges(w, files, t) ==
  checkPath(checkPath(w, files, ConfigPath, t), files, RouterPath, t)

\* What the run has seen, for the properties: per path the time of the last
\* notification, and the numbers of notifications (notes) and of events
\* emitted (burst) since its burst began (a notification begins a burst when
\* the one before it for the path is debounceMs or more in the past).
NoNotes == [op |-> "new", noteAt |-> [p \in Paths |-> 0 - debounceMs],
            notes |-> [p \in Paths |-> 0], burst |-> [p \in Paths |-> 0]]

Notified(h, path, t) ==
  IF t - h.noteAt[path] >= debounceMs
  THEN [op |-> "notify", noteAt |-> [h.noteAt EXCEPT ![path] = t],
        notes |-> [h.notes EXCEPT ![path] = 1], burst |-> [h.burst EXCEPT ![path] = 0]]
  ELSE [op |-> "notify", noteAt |-> [h.noteAt EXCEPT ![path] = t],
        notes |-> [h.notes EXCEPT ![path] = @ + 1], burst |-> h.burst]

Emitted(h, w, w2) ==
  [h EXCEPT !.op = "timeout",
            !.burst = IF Len(w2.emitted) > Len(w.emitted)
                      THEN [h.burst EXCEPT ![w.debounceTimer.path] = @ + 1]
                      ELSE h.burst]

InitWatcher ==
  /\ vm = NewVM
  /\ rgm = NewRGM
  /\ dr = NewDR
  /\ disk \in {[p \in Paths |-> IF p = ConfigPath THEN "a" ELSE c] : c \in {"a", Missing}}
  /\ opts = Option(TRUE, TRUE, TRUE, TRUE)
  /\ now = 0
  /\ ops = 0
  /\ pm = NewPM
  /\ last = NoNotes
  /\ pipes = [p \in {"watch", "api"} |-> Idle]
  /\ route = NoRoute
  /\ watcher = NewWatcher

WatcherStarts ==
  /\ ~watcher.isWatching
  /\ Step(MaxWatch)
  /\ watcher' = ConfigWatcher_startWatching(watcher, disk)
  /\ UNCHANGED <<vm, rgm, dr, disk, opts, now, last, pipes, route, pm>>

\* A file is written (with new content or with the content it has) and
\* chokidar reports the path.
FileWritten ==
  /\ watcher.isWatching
  /\ Step(MaxWatch)
  /\ \E path \in Paths, content \in Contents :
       /\ disk' = [disk EXCEPT ![path] = content]
       /\ watcher' = ConfigWatcher_handleFileChange(watcher, path, now)
       /\ last' = Notified(last, path, now)
  /\ UNCHANGED <<vm, rgm, dr, opts, now, pipes, route, pm>>

\* A file is removed: the watcher listens to change and add only.
FileRemoved ==
  /\ Step(MaxWatch)
  /\ \E path \in Paths :
       /\ disk[path] # Missing
       /\ disk' = [disk EXCEPT ![path] = Missing]
  /\ UNCHANGED <<vm, rgm, dr, opts, now, last, pipes, route, watcher, pm>>

\* Time passes, up to the moment the timer is due.
Tick ==
  /\ now < MaxTime
  /\ ~(watcher.debounceTimer.set /\ watcher.debounceTimer.due <= now)
  /\ now' = now + 1
  /\ UNCHANGED <<vm, rgm, dr, disk, opts, ops, last, pipes, route, watcher, pm>>

TimerFires ==
  /\ watcher.debounceTimer.set
  /\ watcher.debounceTimer.due <= now
  /\ watcher' = ConfigWatcher_timeout(watcher, disk, now)
  /\ last' = Emitted(last, watcher, watcher')
  /\ UNCHANGED <<vm, rgm, dr, disk, opts, now, ops, pipes, route, pm>>

CheckForChanges ==
  /\ Step(MaxWatch)
  /\ watcher' = checkForChanges(watcher, disk, now)
  /\ last' = [last EXCEPT !.op = "check"]
  /\ UNCHANGED <<vm, rgm, dr, disk, opts, now, pipes, route, pm>>

NextWatcher ==
  \/ WatcherStarts
  \/ FileWritten
  \/ FileRemoved
  \/ Tick
  \/ TimerFires
  \/ CheckForChanges

SpecWatcher == InitWatcher /\ [][NextWatcher]_vars

\* ---------------------------------------------------------- properties

\* ---------------------------------------------------- the control API
\* createServer's DynamicRouter (validation, versioning and rollbackOnFailure
\* on) and the POST handlers, each request running to its reply.
AccessLevels == {None, "restricted", "read", "full"}

ApiCall(op, given, status) ==
  [op |-> op, ok |-> status = 200, accessLevel |-> AccessLevel(given), status |-> status]

InitApi ==
  /\ vm = NewVM
  /\ rgm = NewRGM
  /\ dr = NewDR
  /\ disk = File(CfgA)
  /\ opts = Option(TRUE, TRUE, TRUE, FALSE)
  /\ now = 0
  /\ ops = 0
  /\ pm = NewPM
  /\ last = ApiCall("new", "full", 200)
  /\ NoAsync

\* initializeDynamicRouter()
ApiStart ==
  /\ ~dr.isInitialized
  /\ Step(MaxOps)
  /\ \E t \in 0..MaxOps :
       /\ Clock(t)
       /\ Install(initialize(Sys, opts, CfgA, t, TRUE).sys)
  /\ last' = ApiCall("start", "full", 200)
  /\ UNCHANGED <<opts, pipes, route, watcher, pm>>

PostConfig ==
  /\ dr.isInitialized
  /\ Step(MaxOps)
  /\ \E given \in AccessLevels, newConfig \in {CfgA, CfgB, CfgNoDefault},
        writeOk \in BOOLEAN :
       LET r == postConfig(Sys, given, newConfig, writeOk)
       IN /\ Install(r.sys)
          /\ last' = ApiCall("POST /api/config", given, r.status)
  /\ UNCHANGED <<opts, now, pipes, route, watcher, pm>>

PostHotReload ==
  /\ dr.isInitialized
  /\ Step(MaxOps)
  /\ \E given \in AccessLevels, writeOk \in BOOLEAN, t \in 0..MaxOps :
       /\ Clock(t)
       /\ LET r == postHotReload(Sys, opts, given, t, writeOk)
          IN /\ Install(r.sys)
             /\ last' = ApiCall("POST /api/config/hot-reload", given, r.status)
  /\ UNCHANGED <<opts, pipes, route, watcher, pm>>

PostValidate ==
  /\ dr.isInitialized
  /\ Step(MaxOps)
  /\ \E given \in AccessLevels, body \in {CfgA, CfgNoDefault} :
       LET r == postValidate(Sys, given, body)
       IN /\ Install(r.sys)
          /\ last' = ApiCall("POST /api/config/validate", given, r.status)
  /\ UNCHANGED <<opts, now, pipes, route, watcher, pm>>

PostRollback ==
  /\ dr.isInitialized
  /\ Step(MaxOps)
  /\ \E given \in AccessLevels, writeOk \in BOOLEAN, t \in 0..MaxOps,
        versionId \in {NoId} \cup {vm.versions[i].id : i \in 1..Len(vm.versions)} :
       /\ Clock(t)
       /\ LET r == postRollback(Sys, opts, given, versionId, t, writeOk)
          IN /\ Install(r.sys)
             /\ last' = ApiCall("POST /api/config/rollback", given, r.status)
  /\ UNCHANGED <<opts, pipes, route, watcher, pm>>

PostRestart ==
  /\ dr.isInitialized
  /\ Step(MaxOps)
  /\ \E given \in AccessLevels :
       LET r == postRestart(Sys, given)
       IN /\ Install(r.sys)
          /\ last' = ApiCall("POST /api/restart", given, r.status)
  /\ UNCHANGED <<opts, now, pipes, route, watcher, pm>>

NextApi ==
  \/ ApiStart
  \/ PostConfig
  \/ PostHotReload
  \/ PostValidate
  \/ PostRollback
  \/ PostRestart

SpecApi == InitApi /\ [][NextApi]_vars

\* ------------------------------------------- the ProviderManager on its own
\* updateProviders runs to its end, the probes it awaits coming to the
\* outcomes given; the probes performHealthCheck begins end later, one by one.
ProviderVariants(name) ==
  {Provider(name, "http://u1", "k", <<"m1">>, None),
   Provider(name, "http://u2", "k", <<"m1">>, None)}
  \cup (IF name = "p1"
        THEN {Provider(name, "http://u1", "k", <<"m1", "m2">>, None),
              Provider(name, "http://u1", "k", <<"m1">>, "t"),
              Provider(name, "http://u1", "", <<"m1">>, None)}
        ELSE {})

\* The lists a caller passes: provider names are unique in a list.
ProviderLists ==
  {<<>>}
  \cup {<<a>> : a \in UNION {ProviderVariants(n) : n \in ProviderNames}}
  \cup {<<a, b>> : a \in ProviderVariants("p1"), b \in ProviderVariants("p2")}
  \cup {<<b, a>> : a \in ProviderVariants("p1"), b \in ProviderVariants("p2")}

\* A call and its result.
ProviderCall(op, result) == [op |-> op, ok |-> result.success, result |-> result]

InitProviders ==
  /\ vm = NewVM
  /\ rgm = NewRGM
  /\ dr = NewDR
  /\ disk = Unreadable
  /\ opts = Option(TRUE, TRUE, TRUE, FALSE)
  /\ now = 0
  /\ ops = 0
  /\ pm = NewPM
  /\ last = ProviderCall("new", NoResult)
  /\ NoAsync

UpdateProviders ==
  /\ Step(MaxProviderOps)
  /\ \E newProviders \in ProviderLists, outcomes \in [ProviderNames -> Outcomes] :
       LET r == updateProviders(pm, newProviders, outcomes)
       IN /\ pm' = r.pm
          /\ last' = ProviderCall("updateProviders", r.result)
  /\ UNCHANGED <<vm, rgm, dr, disk, opts, now, pipes, route, watcher>>

StartHealthChecks ==
  /\ ~pm.healthCheckInterval
  /\ Step(MaxProviderOps)
  /\ pm' = startHealthChecks(pm)
  /\ last' = ProviderCall("startHealthChecks", NoResult)
  /\ UNCHANGED <<vm, rgm, dr, disk, opts, now, pipes, route, watcher>>

StopHealthChecks ==
  /\ pm.healthCheckInterval
  /\ Step(MaxProviderOps)
  /\ pm' = stopHealthChecks(pm)
  /\ last' = ProviderCall("stopHealthChecks", NoResult)
  /\ UNCHANGED <<vm, rgm, dr, disk, opts, now, pipes, route, watcher>>

\* The interval timer fires.
HealthCheckTimer ==
  /\ pm.healthCheckInterval
  /\ Step(MaxProviderOps)
  /\ pm' = performHealthCheck(pm)
  /\ last' = ProviderCall("timer", NoResult)
  /\ UNCHANGED <<vm, rgm, dr, disk, opts, now, pipes, route, watcher>>

\* A probe nobody awaits comes to its end.
ProbeEnds ==
  /\ Step(MaxProviderOps)
  /\ \E probe \in pm.probes, outcome \in Outcomes :
       pm' = completeProbe(pm, probe, outcome)
  /\ last' = ProviderCall("probe", NoResult)
  /\ UNCHANGED <<vm, rgm, dr, disk, opts, now, pipes, route, watcher>>

NextProviders ==
  \/ UpdateProviders
  \/ StartHealthChecks
  \/ StopHealthChecks
  \/ HealthCheckTimer
  \/ ProbeEnds

SpecProviders == InitProviders /\ [][NextProviders]_vars

\* The ProviderManager with resetProviderErrors among its calls.
ResetProviderErrors ==
  /\ Step(MaxProviderOps)
  /\ \E providerName \in ProviderNames :
       LET r == resetProviderErrors(pm, providerName)
       IN /\ pm' = r.pm
          /\ last' = ProviderCall("resetProviderErrors", r.result)
  /\ UNCHANGED <<vm, rgm, dr, disk, opts, now, pipes, route, watcher>>

NextProviderResets ==
  \/ UpdateProviders
  \/ StartHealthChecks
  \/ StopHealthChecks
  \/ HealthCheckTimer
  \/ ProbeEnds
  \/ ResetProviderErrors

SpecProviderResets == InitProviders /\ [][NextProviderResets]_vars

\* C1: once addVersion has been called, whatever addVersion, rollbackToVersion
\* and deleteVersion calls follow, exactly one stored version has isActive set
\* and it is the version activeVersionId names.
C1_ExactlyOneActive ==
  Len(vm.versions) > 0 =>
    /\ ActiveVersionCount(vm) = 1
    /\ getCurrentVersion(vm).isActive

\* C2: an updateConfiguration call that validation rejects leaves the active
\* version, currentConfig and the RouterGroupManager as they were, with
\* rollbackOnFailure on or off.
C2_RejectedUpdateChangesNothing ==
  [][(last'.op = "update" /\ last'.invalid) =>
       /\ vm'.activeVersionId = vm.activeVersionId
       /\ dr'.currentConfig = dr.currentConfig
       /\ rgm' = rgm]_vars

\* C3: with validation enabled, an update whose Router.default names a
\* provider absent from Providers (validation reports the high-severity
\* reference error) returns success false and the active version stays.
C3_MissingProviderRejected ==
  [][(last'.op = "update" /\ opts.enableValidation /\ last'.high) =>
       /\ ~last'.ok
       /\ vm'.activeVersionId = vm.activeVersionId]_vars

\* C4: every stored version's checksum is the checksum of the config it
\* stores, whatever was called since the version was stored.
C4_StoredConfigsKeepChecksum == ChecksumsMatch(vm)

\* C5: after any sequence of addVersion and rollbackToVersion calls the number
\* of stored versions, backups included, is at most maxVersions.
C5_AtMostMaxVersions == Len(vm.versions) <= maxVersions

\* C6: when rollbackToVersion(v) returns true, v is the active version,
\* currentConfig and the file are v's config, and the config of the version
\* active before is kept in a backup entry that is not active.
C6_RollbackInstallsTarget ==
  [][(last'.op = "rollback" /\ last'.ok) =>
       /\ vm'.activeVersionId = last'.id
       /\ getCurrentVersion(vm').isActive
       /\ dr'.currentConfig = getVersion(vm, last'.id).config
       /\ disk' = File(getVersion(vm, last'.id).config)
       /\ (vm.activeVersionId # NoId =>
             \E i \in 1..Len(vm'.versions) :
               /\ vm'.versions[i].id.k = "backup"
               /\ ~vm'.versions[i].isActive
               /\ vm'.versions[i].config = getCurrentVersion(vm).config)]_vars

\* The merged Router view the RouterGroupManager would give over config.
MergedOver(config) == getMergedRouterConfig([rgm EXCEPT !.config = config])

\* C7: after an update or a rollback that succeeded, the merged Router view
\* is the one computed from currentConfig.
C7_MergedViewFollowsCurrentConfig ==
  (last.op \in {"update", "rollback"} /\ last.ok) =>
    getMergedRouterConfig(rgm) = MergedOver(dr.currentConfig)

\* C8: configuration changes are serialized: at most one update or rollback
\* is between its start and its completion.
C8_OnePipelineAtATime ==
  ~(pipes.watch.pc # "idle" /\ pipes.api.pc # "idle")

\* Nothing is pending: no timer is set and no update or rollback is running.
Quiescent ==
  /\ ~watcher.timer
  /\ \A p \in {"watch", "api"} : pipes[p].pc = "idle"

\* C9: every change event the watcher emitted is processed in the end: once
\* nothing is pending, the content of each has been given to
\* updateConfiguration.
C9_EveryEventProcessed ==
  Quiescent =>
    \A i \in 1..Len(watcher.events) : watcher.events[i].fate = "attempted"

\* C10: a route() call that hands a Router view to the router hands the view
\* that was current when the call started.
C10_RouteUsesConfigAtStart ==
  (route.pc = "done" /\ ~route.custom) => route.handed = route.atStart

\* The events a step appended to a sequence of events.
NewEvents(before, after) == {after[i] : i \in (Len(before) + 1)..Len(after)}

C12_EventOnlyWhenChecksumDiffers ==
  [][/\ \A e \in NewEvents(watcher.emitted, watcher'.emitted)
                   \cup NewEvents(watcher.reported, watcher'.reported) :
          /\ e.checksum = ConfigWatcher_calculateChecksum(disk, e.path)
          /\ e.checksum # watcher.currentChecksums[e.path]
          /\ watcher'.currentChecksums[e.path] = e.checksum
     /\ \A p \in Paths :
          /\ ConfigWatcher_calculateChecksum(disk, p) = watcher.currentChecksums[p] =>
               /\ watcher'.currentChecksums[p] = watcher.currentChecksums[p]
               /\ \A e \in NewEvents(watcher.emitted, watcher'.emitted)
                             \cup NewEvents(watcher.reported, watcher'.reported) :
                    e.path # p
          /\ watcher'.currentChecksums[p] # watcher.currentChecksums[p] =>
               \/ ~watcher.isWatching /\ watcher'.isWatching
               \/ \E e \in NewEvents(watcher.emitted, watcher'.emitted)
                             \cup NewEvents(watcher.reported, watcher'.reported) :
                    e.path = p]_vars

\* The config file was written again with the content it had, the timer has
\* fired, and nothing was emitted.
C12_RewriteEmittedNothing ==
  /\ last.op = "timeout"
  /\ last.notes[ConfigPath] >= 1
  /\ watcher.currentChecksums[ConfigPath] = Md5(disk[ConfigPath])
  /\ disk[ConfigPath] = "a"
  /\ watcher.emitted = <<>>
  /\ watcher.reported = <<>>

\* C13: switchToGroup(id) returns true exactly when id is a key of the
\* config's RouterGroups, and a call that returns false leaves the active
\* group, the config and the merged view as they were and emits nothing.
C13_SwitchSucceedsIffGroupIsKey ==
  [][last'.op = "switch" =>
       /\ last'.ok <=> last'.id \in OwnKeys(rgm.config)
       /\ ~last'.ok =>
            /\ rgm' = rgm
            /\ dr'.currentConfig = dr.currentConfig
            /\ getMergedRouterConfig(rgm') = getMergedRouterConfig(rgm)
            /\ last'.events = <<>>]_vars

\* C14: while the active group id names a group of RouterGroups, each route
\* field of the merged view is the group's value when the group sets it and
\* the base Router's otherwise, the view has neither name nor description,
\* and after a successful switch to g the current group is g and the view's
\* default is g's.
C14_MergedViewOverlaysActiveGroup ==
  rgm.currentActiveGroup \in OwnKeys(rgm.config) =>
    /\ \A field \in {"default", "think"} :
         ViewField(getMergedRouterConfig(rgm), field) =
           IF rgm.config.RouterGroups[rgm.currentActiveGroup][field] # None
           THEN rgm.config.RouterGroups[rgm.currentActiveGroup][field]
           ELSE IF rgm.config.hasRouter THEN rgm.config[field] ELSE None
    /\ "name" \notin DOMAIN getMergedRouterConfig(rgm)
    /\ "description" \notin DOMAIN getMergedRouterConfig(rgm)
    /\ (last.op = "switch" /\ last.ok) =>
         /\ rgm.currentActiveGroup = last.id
         /\ ViewField(getMergedRouterConfig(rgm), "default") =
              rgm.config.RouterGroups[last.id].default

\* A switch to router1 has succeeded: the view has router1's default and the
\* base Router's think.
C14_SwitchedToGroupOne ==
  /\ last.op = "switch" /\ last.ok /\ last.id = "router1"
  /\ rgm.config.RouterGroups["router1"].description # None
  /\ getMergedRouterConfig(rgm) =
       [default |-> "p1,m1", think |-> "p2,m2", activeGroup |-> "router1"]

\* C15: once the RouterGroupManager has a config, after every initialize,
\* updateConfig, switchToGroup and removeRouterGroup the active group id is a
\* key of RouterGroups whenever RouterGroups is not empty.
C15_ActiveGroupNeverDangles ==
  (~rgm.config.isNull /\ OwnKeys(rgm.config) # {}) =>
    rgm.currentActiveGroup \in OwnKeys(rgm.config)

\* C16: after an update that validation accepted, for every group g of
\* RouterGroups the merged view with g active has a default, and every route
\* of the view names a provider of Providers.
C16_AcceptedGroupsReferenceProviders ==
  (last.op = "update" /\ last.ok /\ opts.enableValidation) =>
    \A g \in OwnKeys(dr.currentConfig) :
      /\ ViewField(getMergedRouterConfig([rgm EXCEPT !.currentActiveGroup = g]),
                   "default") # None
      /\ \A field \in {"default", "think"} :
           ViewField(getMergedRouterConfig([rgm EXCEPT !.currentActiveGroup = g]),
                     field) # None =>
             RouteProvider(ViewField(getMergedRouterConfig(
                                       [rgm EXCEPT !.currentActiveGroup = g]), field))
               \in dr.currentConfig.Providers

\* C17: while the config has no RouterGroups the merged view is the config's
\* Router block, whatever the active group id is.
C17_NoGroupsViewIsRouterBlock ==
  (~rgm.config.isNull /\ OwnKeys(rgm.config) = {}) =>
    getMergedRouterConfig(rgm) = RouterBlock(rgm.config)

\* C18: after initialize with a config that has RouterGroups and no
\* Router.activeGroup the active group is router1 when router1 is a group and
\* the first group otherwise.
C18_InitialActiveGroup ==
  (last.op = "initialize" /\ last.ok /\ OwnKeys(rgm.config) # {}
     /\ rgm.config.activeGroup = None) =>
    rgm.currentActiveGroup = IF "router1" \in OwnKeys(rgm.config) THEN "router1"
                             ELSE FirstKey(OwnKeys(rgm.config))

\* C19: route() calls the custom router only while one is loaded and the
\* current config has CUSTOM_ROUTER_PATH; when it returns a non-empty string
\* this is the target and the router with the merged rules is not called;
\* when it returns null, undefined or '', or is not called, the merged rules
\* decide.
C19_CustomRouterDecidesWhenItAnswers ==
  [][route' # route =>
       /\ route'.pc = "custom" =>
            dr.currentCustomRouter /\ dr.currentConfig.CUSTOM_ROUTER_PATH
       /\ (route.pc = "custom" /\ route'.pc = "done") =>
            IF route'.model \notin {None, ""}
            THEN route'.target = route'.model /\ ~route'.rules
            ELSE /\ route'.target = None
                 /\ route'.rules
                 /\ route'.handed = getMergedRouterConfig(rgm)
       /\ (route.pc # "custom" /\ route'.pc = "done") =>
            /\ ~(dr.currentCustomRouter /\ dr.currentConfig.CUSTOM_ROUTER_PATH)
            /\ route'.target = None
            /\ route'.rules]_vars

\* The custom router has answered "p1,m1" and the call has taken it.
C19_CustomRouterAnswered ==
  /\ route.pc = "done"
  /\ route.model = "p1,m1"
  /\ route.target = "p1,m1"
  /\ ~route.rules

\* C20: when the load of the custom router fails (validation on or off) the
\* function loaded before stays the current one.
C20_FailedLoadKeepsPreviousRouter ==
  [][(last'.op = "customRouter" /\ ~last'.ok) =>
       dr'.currentCustomRouter = dr.currentCustomRouter]_vars

\* The ids of the stored versions.
StoredIds(v) == {v.versions[i].id : i \in 1..Len(v.versions)}

\* C27: right after addVersion(x) the version it returned is the active one,
\* and an addVersion(y) that follows, y having x's canonical form (the same
\* content, keys in any order), returns that version and changes neither the
\* stored versions nor the counter, while a y that differs from x in the
\* order of an array's elements becomes a new version.
C27_SameCanonicalFormAddsNothing ==
  last.op = "addVersion" =>
    /\ getCurrentVersion(vm).id = last.id
    /\ \A y \in VersionConfigs, t \in 0..MaxOps :
         /\ [y EXCEPT !.keyOrder = 0] = [getCurrentVersion(vm).config EXCEPT !.keyOrder = 0]
              => /\ addVersion(vm, y, "manual", t).vm = vm
                 /\ addVersion(vm, y, "manual", t).version = getCurrentVersion(vm)
         /\ [y EXCEPT !.arrayOrder = 0] = [getCurrentVersion(vm).config EXCEPT !.arrayOrder = 0]
            /\ y.arrayOrder # getCurrentVersion(vm).config.arrayOrder
              => /\ addVersion(vm, y, "manual", t).version.id \notin StoredIds(vm)
                 /\ addVersion(vm, y, "manual", t).vm.versionCounter = vm.versionCounter + 1

\* addVersion(CfgA) was followed by an addVersion of the same canonical form,
\* which added nothing: one version is stored.
C27_SecondAddVersionSkipped ==
  /\ last.op = "addVersion"
  /\ ~last.ok
  /\ Len(vm.versions) = 1
  /\ vm.versionCounter = 2

\* C28: after updateConfiguration(c, source) returns success, the config file
\* holds c.
C28_SuccessfulUpdateIsOnDisk ==
  [][(last'.op = "update" /\ last'.ok) => disk' = File(dr'.currentConfig)]_vars

\* C30: when the write of the config file fails during rollbackToVersion, the
\* call returns false and the active version and the set of stored versions
\* are those of before the call.
C30_FailedRollbackChangesNothing ==
  [][(last'.op = "vmRollback" /\ ~last'.ok /\ Has(vm.versions, last'.id)) =>
       /\ vm'.activeVersionId = vm.activeVersionId
       /\ StoredIds(vm') = StoredIds(vm)]_vars

\* C25: an update error makes the health degraded only when it is at least
\* the third consecutive one and failed only when it is at least the fourth;
\* the first and the second leave the health as it was.
C25_HealthFollowsConsecutiveErrors ==
  [][(last'.op \in {"customRouter", "changeError"}
      /\ dr'.status.errorCount = dr.status.errorCount + 1) =>
       /\ dr'.status.errorCount <= 2 => dr'.status.health = dr.status.health
       /\ dr'.status.health = "degraded" => dr'.status.errorCount > 2
       /\ dr'.status.health = "failed" => dr'.status.errorCount > 3]_vars

\* C26: a successful updateConfiguration leaves the health healthy and
\* errorCount 0, whatever they were.
C26_SuccessfulUpdateResetsHealth ==
  [][(last'.op = "update" /\ last'.ok) =>
       /\ dr'.status.health = "healthy"
       /\ dr'.status.errorCount = 0]_vars

\* An update succeeded while the health was failed.
C26_RecoveredFromFailed ==
  /\ last.op = "update"
  /\ last.ok
  /\ last.healthBefore = "failed"
  /\ dr.status.health = "healthy"

\* The names the providers Map holds.
ProviderKeys(providers) == {n \in ProviderNames : providers[n].present}

\* C23: a provider's health status is failed exactly when its
\* consecutiveFailures is 3 or more, and degraded when it is 1 or 2.
C23_FailedAtThirdFailure ==
  \A n \in ProviderKeys(pm.providers) :
    /\ pm.healthStatus[n].status = "failed" <=> pm.healthStatus[n].consecutiveFailures >= 3
    /\ pm.healthStatus[n].consecutiveFailures \in {1, 2} =>
         pm.healthStatus[n].status = "degraded"

\* A third probe in a row has failed.
C23_ThirdProbeFailed ==
  \E n \in ProviderKeys(pm.providers) :
    /\ pm.healthStatus[n].consecutiveFailures = 3
    /\ pm.healthStatus[n].status = "failed"

\* C24: updateProviders(newList) with every entry valid leaves the names of
\* newList in the table and reports as added the names that were not there,
\* as removed the names that are not in newList, and as updated the names
\* there before and in newList whose URL, key, models or transformer differ:
\* so it is of every call that can follow in the state reached.
C24_UpdateProvidersReportsTheDiff ==
  \A newList \in ProviderLists, outcomes \in [ProviderNames -> Outcomes] :
    (\A i \in 1..Len(newList) : validateProvider(newList[i])) =>
       LET new == {newList[i] : i \in 1..Len(newList)}
           names == {e.name : e \in new}
           before == ProviderKeys(pm.providers)
           r == updateProviders(pm, newList, outcomes)
       IN /\ ProviderKeys(r.pm.providers) = names
          /\ r.result.providersAdded = names \ before
          /\ r.result.providersRemoved = before \ names
          /\ r.result.providersUpdated =
               {e.name : e \in {x \in new :
                  /\ x.name \in before
                  /\ <<x.api_base_url, x.api_key, x.models, x.transformer>>
                     # <<pm.providers[x.name].api_base_url, pm.providers[x.name].api_key,
                          pm.providers[x.name].models, pm.providers[x.name].transformer>>}}

\* A call has added p2 and updated p1, whose models alone had changed.
C24_AddedAndUpdated ==
  /\ last.op = "updateProviders"
  /\ last.ok
  /\ last.result.providersAdded = {"p2"}
  /\ last.result.providersUpdated = {"p1"}
  /\ pm.providers["p1"].api_base_url = "http://u1"
  /\ pm.providers["p1"].models = <<"m1", "m2">>

ApiPosts ==
  {"POST /api/config", "POST /api/config/hot-reload", "POST /api/config/validate",
   "POST /api/config/rollback", "POST /api/restart"}

\* C29: a POST to /config, /config/hot-reload, /config/validate,
\* /config/rollback or /restart whose access level is not full is answered
\* 403 and changes neither the config file, the stored versions nor the
\* active configuration.
C29_PostsNeedFullAccess ==
  [][(last'.op \in ApiPosts /\ last'.accessLevel # "full") =>
       /\ last'.status = 403
       /\ disk' = disk
       /\ vm' = vm
       /\ dr' = dr
       /\ rgm' = rgm]_vars

\* A rollback was asked for with read access, two versions being stored and
\* the file holding another document than the active one.
C29_ReadAccessTurnedAway ==
  /\ last.op = "POST /api/config/rollback"
  /\ last.accessLevel = "read"
  /\ last.status = 403
  /\ Len(vm.versions) >= 2
  /\ disk # File(dr.currentConfig)

\* ------------------------------------------------------------- routing rules
\* The rule that decides a request under a view, by the priority list.
SubagentDecides(req) == req.subagent # None
WebSearchDecides(req, view) ==
  ~SubagentDecides(req) /\ req.webSearch /\ "webSearch" \in DOMAIN view
LongContextDecides(req, view) ==
  /\ ~SubagentDecides(req) /\ ~WebSearchDecides(req, view)
  /\ "longContext" \in DOMAIN view
  /\ req.tokenCount >= (IF "longContextThreshold" \in DOMAIN view
                        THEN view.longContextThreshold ELSE DefaultLongContextThreshold)
ThinkDecides(req, view) ==
  /\ ~SubagentDecides(req) /\ ~WebSearchDecides(req, view) /\ ~LongContextDecides(req, view)
  /\ req.thinking /\ "think" \in DOMAIN view
BackgroundDecides(req, view) ==
  /\ ~SubagentDecides(req) /\ ~WebSearchDecides(req, view) /\ ~LongContextDecides(req, view)
  /\ ~ThinkDecides(req, view)
  /\ req.background /\ "background" \in DOMAIN view
DefaultDecides(req, view) ==
  /\ ~SubagentDecides(req) /\ ~WebSearchDecides(req, view) /\ ~LongContextDecides(req, view)
  /\ ~ThinkDecides(req, view) /\ ~BackgroundDecides(req, view)

\* The request the DynamicRouter has just routed by the rules, the custom
\* router absent or not deciding.
RulesDecided ==
  last.op = "route" /\ dr.status.isActive /\ ~last.threw /\ last.rules

C21_RaisingCustomRouterFallsBackToMergedRules ==
  (last.op = "route" /\ last.threw)
    => last.target = originalRouter(last.req, getMergedRouterConfig(rgm))
\* --------------------------------------------------------------- eviction
\* The stored versions addVersion removed in this step.
Evicted == {i \in 1..Len(vm.versions) : ~Has(vm'.versions, vm.versions[i].id)}

\* C31: when addVersion stores a new version, the versions it removes are
\* not active and no version it keeps, the active one aside, is older than a
\* removed one; the active version is kept; afterwards at most maxVersions
\* versions are stored.
C31_EvictionRemovesOldestInactive ==
  [][(last'.op = "addVersion" /\ last'.ok) =>
       /\ Has(vm'.versions, vm'.activeVersionId)
       /\ \A i \in Evicted :
            \A j \in 1..Len(vm'.versions) :
              vm'.versions[j].id # vm'.activeVersionId
                => vm'.versions[j].timestamp >= vm.versions[i].timestamp
       /\ Len(vm'.versions) <= maxVersions]_vars

\* The same with every stored timestamp distinct before and after the call.
DistinctTimestamps(versions) ==
  \A i, j \in 1..Len(versions) : i # j => versions[i].timestamp # versions[j].timestamp
EvictionWhenTimestampsDiffer ==
  [][(last'.op = "addVersion" /\ last'.ok /\ DistinctTimestamps(vm'.versions)) =>
       /\ Has(vm'.versions, vm'.activeVersionId)
       /\ \A i \in Evicted :
            \A j \in 1..Len(vm'.versions) :
              vm'.versions[j].id # vm'.activeVersionId
                => vm'.versions[j].timestamp >= vm.versions[i].timestamp
       /\ Len(vm'.versions) <= maxVersions]_vars
\* ------------------------------------------------------------ probe results
\* What the table holds for name once a probe has been answered below 500.
Recovered(m, name, outcome) ==
  /\ m.healthStatus[name].consecutiveFailures = 0
  /\ m.providers[name].status = "active"
  /\ m.providers[name].errorCount = 0
  /\ m.healthStatus[name].status = (IF outcome = "slow" THEN "degraded" ELSE "healthy")

\* C32: a probe of a provider of the table that is answered below 500 sets
\* consecutiveFailures to 0, the provider's status to active and the health
\* status to healthy (degraded when the answer took more than 5000 ms),
\* whatever they were: so it is of every probe under way in the state reached.
C32_AnsweredProbeRestoresProvider ==
  \A probe \in pm.probes, outcome \in {"ok", "slow"} :
    pm.providers[probe.name].present =>
      Recovered(completeProbe(pm, probe, outcome), probe.name, outcome)

\* The same of the probes whose provider and health objects are still the
\* ones the table holds.
AnsweredProbeOfCurrentObjects ==
  \A probe \in pm.probes, outcome \in {"ok", "slow"} :
    (pm.providers[probe.name].present /\ probe.provider /\ probe.health) =>
      Recovered(completeProbe(pm, probe, outcome), probe.name, outcome)
\* -------------------------------------------------------------- probe frame
\* What a provider is configured with.
Configured(provider) ==
  <<provider.present, provider.api_base_url, provider.api_key, provider.models,
    provider.transformer>>

\* Between m and after, at most the provider name has changed, and only in
\* its status and counters.
OnlyStatusOf(name, m, after) ==
  /\ ProviderKeys(after.providers) = ProviderKeys(m.providers)
  /\ Configured(after.providers[name]) = Configured(m.providers[name])
  /\ after.healthStatus[name].present = m.healthStatus[name].present
  /\ \A other \in ProviderNames \ {name} :
       /\ after.providers[other] = m.providers[other]
       /\ after.healthStatus[other] = m.healthStatus[other]

\* C33: the end of a health probe, answered or failed, changes only the
\* probed provider's status and counters: the set of providers, every other
\* provider's entry, the current config and the stored versions stay as they
\* were.
C33_ProbeChangesOnlyItsProvider ==
  [][last'.op = "probe" =>
       /\ \E name \in ProviderNames : OnlyStatusOf(name, pm, pm')
       /\ <<vm, rgm, dr, disk>>' = <<vm, rgm, dr, disk>>]_vars

\* A probe of p1 has failed while p2, probed before, stays healthy.
C33_OneProviderDegraded ==
  /\ last.op = "probe"
  /\ pm.healthStatus["p1"].status = "degraded"
  /\ pm.healthStatus["p1"].consecutiveFailures = 1
  /\ pm.providers["p2"].status = "active"
  /\ pm.healthStatus["p2"].status = "healthy"
\* ------------------------------------------------------------ routing frame
\* C34: a routing call that raises may change the router's health and
\* errorCount, and leaves the current config, the stored versions and the
\* active router group as they were.
C34_RaisingRouteKeepsConfigState ==
  [][(last'.op = "route" /\ last'.threw) =>
       /\ dr'.currentConfig = dr.currentConfig
       /\ dr'.status.currentVersion = dr.status.currentVersion
       /\ vm' = vm
       /\ rgm' = rgm
       /\ disk' = disk]_vars

\* The custom router has raised twice under group router2 with a version
\* stored.
C34_RaisedTwice ==
  /\ last.op = "route"
  /\ last.threw
  /\ dr.status.errorCount = 2
  /\ rgm.currentActiveGroup = "router2"
  /\ Len(vm.versions) = 1
\* --------------------------------------------------------------- validation
\* C35: validateConfig returns isValid = false exactly when its error list
\* holds a critical error; errors of another severity and warnings do not
\* make a config invalid.
C35_InvalidIffCriticalError ==
  last.op = "validateConfig" =>
    /\ ~last.result.isValid <=> \E e \in last.result.errors : e.severity = "critical"
    /\ (\A e \in last.result.errors : e.severity \in {"high", "medium", "low"})
         => last.result.isValid

\* A config with a high and a medium error and a warning was found valid.
C35_ValidDespiteErrorsAndWarnings ==
  /\ last.op = "validateConfig"
  /\ last.result.isValid
  /\ \E e \in last.result.errors : e.severity = "high"
  /\ \E e \in last.result.errors : e.severity = "medium"
  /\ last.result.warnings # {}
\* ------------------------------------------------------------ version diff
\* The four parts of a diff hold every key of keys, each in one part only.
PartitionOf(diff, keys) ==
  /\ DOMAIN diff.added \cup DOMAIN diff.removed \cup DOMAIN diff.modified
       \cup DOMAIN diff.unchanged = keys
  /\ \A k \in keys :
       Cardinality({part \in {"added", "removed", "modified", "unchanged"} :
                      k \in DOMAIN diff[part]}) = 1

\* C36: getVersionDiff(a, b) of two stored versions puts every top-level key
\* of either config in exactly one of added, removed, modified and unchanged,
\* and getVersionDiff(v, v) has added, removed and modified empty and every
\* key of v's config in unchanged.
C36_DiffPartitionsTheKeys ==
  \A i, j \in 1..Len(vm.versions) :
    LET a == vm.versions[i]
        b == vm.versions[j]
        diff == getVersionDiff(vm, a.id, b.id)
        same == getVersionDiff(vm, a.id, a.id)
    IN /\ PartitionOf(diff, TopLevelKeys(Get(vm.versions, a.id).config)
                            \cup TopLevelKeys(Get(vm.versions, b.id).config))
       /\ DOMAIN same.added = {} /\ DOMAIN same.removed = {} /\ DOMAIN same.modified = {}
       /\ DOMAIN same.unchanged = TopLevelKeys(Get(vm.versions, a.id).config)

\* Two stored versions differ by keys added and keys modified, and the
\* reverse diff has them removed.
C36_AddedModifiedAndRemoved ==
  \E i, j \in 1..Len(vm.versions) :
    /\ DOMAIN getVersionDiff(vm, vm.versions[i].id, vm.versions[j].id).added
         = {"RouterGroups", "CUSTOM_ROUTER_PATH"}
    /\ DOMAIN getVersionDiff(vm, vm.versions[i].id, vm.versions[j].id).modified
         = {"Providers", "Router"}
    /\ DOMAIN getVersionDiff(vm, vm.versions[j].id, vm.versions[i].id).removed
         = {"RouterGroups", "CUSTOM_ROUTER_PATH"}
\* ------------------------------------------------- router and version ring
\* The content of a document, Router.activeGroup and the order of its keys
\* aside.
Content(config) == [config EXCEPT !.activeGroup = None, !.keyOrder = 0]

\* The DynamicRouter and the ConfigVersionManager agree on the active config.
InStep ==
  /\ getCurrentVersion(vm).id # NoId
  /\ Content(dr.currentConfig) = Content(getCurrentVersion(vm).config)
  /\ dr.status.currentVersion = getCurrentVersion(vm).version

\* C37: with versioning enabled, after every completed initialize,
\* updateConfiguration, reloadConfiguration or rollbackToVersion, successful
\* or not, the current config has the content (Router.activeGroup aside) of
\* the config of the active version, and status.currentVersion is that
\* version's label.
C37_RouterFollowsActiveVersion ==
  (opts.enableVersioning /\ last.op \in {"initialize", "update", "reload", "rollback"})
    => InStep

\* The same of the calls made once the router is initialized.
RouterFollowsActiveVersionOnceInitialized ==
  (opts.enableVersioning /\ dr.isInitialized
   /\ last.op \in {"initialize", "update", "reload", "rollback"})
    => InStep

\* The same of the calls that succeed.
SuccessfulCallsKeepInStep ==
  (opts.enableVersioning /\ dr.isInitialized /\ last.ok
   /\ last.op \in {"initialize", "update", "reload", "rollback"})
    => InStep
\* The same of reloadConfiguration alone.
ReloadKeepsInStep ==
  (opts.enableVersioning /\ dr.isInitialized /\ last.op = "reload") => InStep

\* The last notifications of the two paths lie within one debounce window.
InOneWindow ==
  /\ last.notes[ConfigPath] > 0
  /\ last.notes[RouterPath] > 0
  /\ last.noteAt[ConfigPath] - last.noteAt[RouterPath] < debounceMs
  /\ last.noteAt[RouterPath] - last.noteAt[ConfigPath] < debounceMs

\* The change of the path has gone through the timer's callback: the checksum
\* the watcher holds for the file is the checksum of the file as it is.
Processed(path) ==
  watcher.currentChecksums[path] = ConfigWatcher_calculateChecksum(disk, path)

\* C38: when the config file and the custom-router file are both reported
\* within one debounce window, the notification of the one does not cancel the
\* pending notification of the other: once no timer is pending any more, the
\* change of each of the two files has been processed (its event emitted when
\* the content differs).
C38_EachPathGetsItsEvent ==
  (watcher.isWatching /\ InOneWindow /\ ~watcher.debounceTimer.set)
     => \A path \in Paths : disk[path] # Missing => Processed(path)

\* The same of the path whose notification came last: its change is processed.
LastNotifiedPathGetsItsEvent ==
  (watcher.isWatching /\ InOneWindow /\ ~watcher.debounceTimer.set
     /\ last.op = "timeout")
     => (disk[watcher.debounceTimer.path] # Missing
           => Processed(watcher.debounceTimer.path))


\* The provider's status, its health status and its failure count agree.
StatusesAgree(provider, healthStatus) ==
  /\ provider.status = "failed" <=> healthStatus.status = "failed"
  /\ healthStatus.status = "failed" <=> healthStatus.consecutiveFailures >= 3
  /\ provider.status = "active" => healthStatus.consecutiveFailures = 0

\* C39: for every provider of the table, whatever probes, updateProviders and
\* resetProviderErrors calls have interleaved: the provider's status is failed
\* exactly when its health status is failed, exactly when its
\* consecutiveFailures is 3 or more, and its status is active only when its
\* consecutiveFailures is 0.
C39_StatusesAgreeWithFailureCount ==
  \A n \in ProviderKeys(pm.providers) : StatusesAgree(pm.providers[n], pm.healthStatus[n])

\* resetProviderErrors keeps the three in agreement where they agreed.
ResetKeepsStatusesAgreeing ==
  [][(last'.op = "resetProviderErrors" /\ C39_StatusesAgreeWithFailureCount)
       => C39_StatusesAgreeWithFailureCount']_vars

====
